---- MODULE Spec2Model ----
(***************************************************************************)
(* A model of dns-proxy's forwarding plane: the SNI rewriter               *)
(* (src/src/rewriters/base.rs), the HTTP request handler                   *)
(* (src/src/proxy/http.rs, src/src/upstream/http.rs), the DoT tunnel       *)
(* (src/src/readers/dot.rs), the QUIC stream tunnel                        *)
(* (src/src/upstream/quic.rs) and the metrics counters                     *)
(* (src/src/metrics.rs).                                                   *)
(*                                                                         *)
(* Strings are sequences of one-character strings; byte buffers are        *)
(* sequences of small naturals.                                            *)
(***************************************************************************)
EXTENDS Naturals, Sequences, FiniteSets, TLC

VARIABLES
    config,      \* RewriteConfig: base_domains, target_suffix, rewrite_failure_strategy
    sni_map,     \* BaseSniRewriter.sni_map: hostname -> target hostname
    rw,          \* per caller: the position of its rewrite() call and its locals
    completed,   \* history: the (sni, result) pairs rewrite() has returned
    ncalls,      \* history: the number of rewrite() calls started
    nmatched,    \* history: the number of rewrite() calls that returned a rewritten name
    metrics,     \* Metrics: the seven counters
    http,        \* handle_http_request: its position, the request, the upstream, the outcome
    dot,         \* DoTServer::handle_connection: its position, buffers and both peers
    quic,        \* forward_quic_stream: its position, buffers and both peers
    doq,         \* DoQServer::handle_connection: its position, buffers and both peers
    doh,         \* DoHServer::handle_request: its position, the request, the upstream
    doh3,        \* DoH3Server::handle_request: its position, the request, the upstream
    listener,    \* DoTServer::start and DoHServer::start: the accept loops
    backoff,     \* BackoffCounter: its counter and the delays next_delay returned
    pool,        \* ConnectionPool: clients and the get_client calls in progress
    certs,       \* CertificateResolver: cert_cache and the resolves in progress
    mt,          \* Metrics: its callers, the histogram, the clock, the memoized snapshot
    app          \* main and App: the supervisor, the server tasks, a connection task

\* the state of the listeners, the back-off counter, the pool, the resolver
\* and the metrics' callers
libVars == <<listener, backoff, pool, certs, mt, app>>

\* what the rewriter's steps leave alone
ioVars == <<metrics, http, dot, quic, doq, doh, doh3, libVars>>

vars == <<config, sni_map, rw, completed, ncalls, nmatched, metrics, http, dot, quic, doq, doh, doh3,
          listener, backoff, pool, certs, mt, app>>

(***************************************************************************)
(* Bounds                                                                  *)
(***************************************************************************)
MaxHostLen == 5
MaxBases == 2
MaxCalls == 3

(***************************************************************************)
(* Strings                                                                 *)
(***************************************************************************)
Chars == {"a", "A", "."}

Dot == "."

StrUpTo(n) == UNION {[1..k -> Chars] : k \in 0..n}

Hostnames == StrUpTo(MaxHostLen)

NoneStr == [some |-> FALSE, v |-> <<>>]

SomeStr(s) == [some |-> TRUE, v |-> s]

\* str::ends_with
EndsWith(s, suf) ==
    /\ Len(suf) <= Len(s)
    /\ SubSeq(s, Len(s) - Len(suf) + 1, Len(s)) = suf

\* str::starts_with(char)
StartsWithChar(s, ch) == Len(s) > 0 /\ s[1] = ch

\* str::strip_suffix: the rest before the suffix, or None
StripSuffix(s, suf) ==
    IF EndsWith(s, suf) THEN SomeStr(SubSeq(s, 1, Len(s) - Len(suf))) ELSE NoneStr

(***************************************************************************)
(* The rewriter's pure parts                                               *)
(***************************************************************************)
\* a variant that strips the base domain without asking for the separating dot
PrefixAgainstNoDot(sni, base_domain) ==
    LET rest == StripSuffix(sni, base_domain) IN
    IF rest.some /\ rest.v # <<>>
    THEN LET prefix == IF EndsWith(rest.v, <<Dot>>)
                       THEN SubSeq(rest.v, 1, Len(rest.v) - 1) ELSE rest.v
         IN IF prefix # <<>> THEN SomeStr(prefix) ELSE NoneStr
    ELSE NoneStr

\* one iteration of extract_prefix's loop: the prefix against one base domain
PrefixAgainst(sni, base_domain) ==
    LET rest == StripSuffix(sni, base_domain) IN
    IF rest.some /\ rest.v # <<>> /\ EndsWith(rest.v, <<Dot>>)
    THEN LET stripped == StripSuffix(rest.v, <<Dot>>)
             prefix == IF stripped.some THEN stripped.v ELSE rest.v
         IN IF prefix # <<>> THEN SomeStr(prefix) ELSE NoneStr
    ELSE NoneStr

RECURSIVE ExtractPrefixLast(_, _, _)
\* a variant of the loop in which a later base domain overrides an earlier one
ExtractPrefixLast(base_domains, i, sni) ==
    IF i > Len(base_domains) THEN NoneStr
    ELSE LET later == ExtractPrefixLast(base_domains, i + 1, sni) IN
         IF later.some THEN later ELSE PrefixAgainst(sni, base_domains[i])

RECURSIVE ExtractPrefixFrom(_, _, _)
\* extract_prefix's loop from the i-th base domain on: the first match returns
ExtractPrefixFrom(base_domains, i, sni) ==
    IF i > Len(base_domains) THEN NoneStr
    ELSE LET p == PrefixAgainst(sni, base_domains[i]) IN
         IF p.some THEN p ELSE ExtractPrefixFrom(base_domains, i + 1, sni)

ExtractPrefix(sni) == ExtractPrefixFrom(config.base_domains, 1, sni)

BuildTargetHostname(prefix) == prefix \o config.target_suffix

NoResult == [some |-> FALSE, original |-> <<>>, prefix |-> <<>>, target_hostname |-> <<>>]

RewriteResult(original, prefix, target_hostname) ==
    [some |-> TRUE, original |-> original, prefix |-> prefix,
     target_hostname |-> target_hostname]

\* a variant of the passthrough result that still appends the target suffix
PassthroughResultSuffixed(sni) == RewriteResult(sni, <<>>, sni \o config.target_suffix)

PassthroughResult(sni) == RewriteResult(sni, <<>>, sni)

\* a variant of the validation that forgets the target-suffix check
PreconditionsOkNoSuffixCheck(sni) ==
    /\ sni # <<>>
    /\ config.base_domains # <<>>

\* rewrite's three early returns, negated
PreconditionsOk(sni) ==
    /\ sni # <<>>
    /\ config.base_domains # <<>>
    /\ StartsWithChar(config.target_suffix, Dot)

\* a variant with the key and the value exchanged
MapInsertSwapped(m, k, v) == [x \in (DOMAIN m) \cup {v} |-> IF x = v THEN k ELSE m[x]]

\* DashMap::insert: insert or overwrite
MapInsert(m, k, v) == [x \in (DOMAIN m) \cup {k} |-> IF x = k THEN v ELSE m[x]]

(***************************************************************************)
(* Configurations                                                          *)
(***************************************************************************)
BasePool == {<<"a">>, <<"A">>, <<"a", ".", "a">>}

BaseLists == UNION {[1..k -> BasePool] : k \in 0..MaxBases}

Suffixes == {<<".", "A">>, <<"a">>, <<>>}

Strategies == {"error", "passthrough"}

Configs ==
    [base_domains : BaseLists, target_suffix : Suffixes,
     rewrite_failure_strategy : Strategies]

\* the configurations and hostnames of the concurrent specifications
ConcBaseLists == {<<>>, <<<<"a">>>>, <<<<"a">>, <<"a", ".", "a">>>>}

ConcConfigs ==
    [base_domains : ConcBaseLists, target_suffix : {<<".", "A">>, <<"a">>},
     rewrite_failure_strategy : Strategies]

ConcHosts == {<<>>, <<"a">>, <<"a", ".", "a">>, <<"A", ".", "a">>, <<"a", ".", "A">>}

(***************************************************************************)
(* rewrite(), one call per caller at a time                                *)
(***************************************************************************)
DirectCallers == {"t1", "t2"}

Callers == DirectCallers \cup {"http", "doh", "doh3"}

IdleCall ==
    [pc |-> "idle", sni |-> <<>>, prefix |-> <<>>, target |-> <<>>, result |-> NoResult]

\* a caller invokes rewrite(h)
RewriteCall(c, h) ==
    /\ rw[c].pc \in {"idle", "done"}
    /\ ncalls < MaxCalls
    /\ rw' = [rw EXCEPT ![c] = [IdleCall EXCEPT !.pc = "called", !.sni = h]]
    /\ ncalls' = ncalls + 1
    /\ UNCHANGED <<config, sni_map, completed, nmatched, ioVars>>

\* the strategy match on a failed extraction
FailureResult(sni) ==
    IF config.rewrite_failure_strategy = "passthrough"
    THEN PassthroughResult(sni)
    ELSE NoResult

\* the validation, the extraction and the target hostname: no shared state is written
RewriteValidate(c) ==
    /\ rw[c].pc = "called"
    /\ LET sni == rw[c].sni IN
       IF ~PreconditionsOk(sni)
       THEN rw' = [rw EXCEPT ![c].pc = "ret", ![c].result = NoResult]
       ELSE LET p == ExtractPrefix(sni) IN
            IF p.some
            THEN rw' = [rw EXCEPT ![c].pc = "insert", ![c].prefix = p.v,
                                  ![c].target = BuildTargetHostname(p.v)]
            ELSE rw' = [rw EXCEPT ![c].pc = "ret", ![c].result = FailureResult(sni)]
    /\ UNCHANGED <<config, sni_map, completed, ncalls, nmatched, ioVars>>

\* a variant that reports a result only for a hostname the cache did not hold yet
RewriteInsertOnce(c) ==
    /\ rw[c].pc = "insert"
    /\ sni_map' = MapInsert(sni_map, rw[c].sni, rw[c].target)
    /\ rw' = [rw EXCEPT ![c].pc = "ret",
                        ![c].result = IF rw[c].sni \in DOMAIN sni_map
                                      THEN NoResult
                                      ELSE RewriteResult(rw[c].sni, rw[c].prefix, rw[c].target)]
    /\ UNCHANGED <<config, completed, ncalls, nmatched, ioVars>>

\* the cache insert, and the result that is about to be returned
RewriteInsert(c) ==
    /\ rw[c].pc = "insert"
    /\ sni_map' = MapInsert(sni_map, rw[c].sni, rw[c].target)
    /\ rw' = [rw EXCEPT ![c].pc = "ret",
                        ![c].result = RewriteResult(rw[c].sni, rw[c].prefix, rw[c].target)]
    /\ UNCHANGED <<config, completed, ncalls, nmatched, ioVars>>

\* rewrite() returns to its caller
RewriteReturn(c) ==
    /\ rw[c].pc = "ret"
    /\ rw' = [rw EXCEPT ![c].pc = "done"]
    /\ completed' = completed \cup {[sni |-> rw[c].sni, result |-> rw[c].result]}
    /\ nmatched' = IF rw[c].result.some /\ rw[c].result.prefix # <<>>
                   THEN nmatched + 1 ELSE nmatched
    /\ UNCHANGED <<config, sni_map, ncalls, ioVars>>

(***************************************************************************)
(* Metrics                                                                 *)
(***************************************************************************)
\* Metrics::new: every counter at zero
NewMetrics ==
    [total_requests |-> 0, successful_requests |-> 0, failed_requests |-> 0,
     bytes_received |-> 0, bytes_sent |-> 0, sni_rewrites |-> 0, upstream_errors |-> 0]

\* Metrics::record_request
RecordRequest(m, success, bytes_received_val, bytes_sent_val) ==
    [m EXCEPT !.total_requests = @ + 1,
              !.successful_requests = IF success THEN @ + 1 ELSE @,
              !.failed_requests = IF success THEN @ ELSE @ + 1,
              !.bytes_received = @ + bytes_received_val,
              !.bytes_sent = @ + bytes_sent_val]

\* Metrics::record_sni_rewrite
RecordSniRewrite(m) == [m EXCEPT !.sni_rewrites = @ + 1]

\* Metrics::record_upstream_error
RecordUpstreamError(m) == [m EXCEPT !.upstream_errors = @ + 1]

(***************************************************************************)
(* Byte buffers                                                            *)
(***************************************************************************)
MaxBody == 1

Bytes == {0, 1}

BytesUpTo(n) == UNION {[1..k -> Bytes] : k \in 0..n}

Bodies == BytesUpTo(MaxBody)

(***************************************************************************)
(* Header maps and URIs                                                    *)
(***************************************************************************)
\* a header: a lower-case name and a value
Header(name, value) == [name |-> name, value |-> value]

\* HeaderMap::insert: every value the map had for the name is replaced
HeaderInsert(hm, name, value) ==
    SelectSeq(hm, LAMBDA e : e.name # name) \o <<Header(name, value)>>

\* the header names forward_http_request does not copy
skip_headers == {"host", "connection", "keep-alive", "transfer-encoding"}

\* the copy loop: the headers from position i on, those named in skip left
\* out, inserted one by one into acc
RECURSIVE CopyHeaders(_, _, _, _)
CopyHeaders(headers, i, skip, acc) ==
    IF i > Len(headers) THEN acc
    ELSE CopyHeaders(headers, i + 1, skip,
                     IF headers[i].name \in skip THEN acc
                     ELSE HeaderInsert(acc, headers[i].name, headers[i].value))

\* the header map of a request: its Host header, if any, and the others
RequestHeaders(req) ==
    (IF req.host.some THEN <<Header("host", req.host.v)>> ELSE <<>>) \o req.headers

\* the text "https://"
HttpsScheme == <<"h", "t", "t", "p", "s", ":", "/", "/">>

\* a variant that forwards to the bare host whatever the path
UpstreamUriNoPath(target_hostname, path_and_query) == HttpsScheme \o target_hostname

\* format!("https://{}{}", target_hostname, path_and_query), "/" when the
\* request URI has no path-and-query
UpstreamUri(target_hostname, path_and_query) ==
    HttpsScheme \o target_hostname
                \o (IF path_and_query.some THEN path_and_query.v ELSE <<"/">>)

\* the headers of the requests the model sends
HeaderLists ==
    { <<>>,
      <<Header("connection", <<"a">>), Header("accept", <<"a">>)>>,
      <<Header("accept", <<"a">>), Header("accept", <<"A">>)>> }

\* the path-and-query of the requests the model sends
PathQueries == {NoneStr, SomeStr(<<"/", "q">>)}

IdleHttp ==
    [pc |-> "idle",
     req |-> [method |-> "GET", host |-> NoneStr, body |-> <<>>,
              headers |-> <<>>, path_and_query |-> NoneStr],
     target |-> <<>>, body |-> <<>>,
     fwd |-> [sent |-> FALSE, method |-> "GET", host |-> <<>>, body |-> <<>>,
              headers |-> <<>>, uri |-> <<>>],
     up |-> [kind |-> "none", status |-> 0, body |-> <<>>],
     result |-> [kind |-> "none", status |-> 0, body |-> <<>>, bytes_sent |-> 0],
     deadline_passed |-> FALSE,   \* 30 s have passed since the request was sent
     nreq |-> 0]

MaxMsg == 2

Msgs == BytesUpTo(MaxMsg)

\* the bytes of s from position from + 1 on, at most k of them
Chunk(s, from, k) == SubSeq(s, from + 1, from + k)

\* a DoT connection that has not been accepted
IdleDot ==
    [pc |-> "off",
     client_sent |-> <<>>,      \* what the client wrote before closing its send side
     buffer |-> <<>>,           \* the handler's buffer
     bytes_received |-> 0, bytes_sent |-> 0,
     up_connected |-> FALSE,
     up_in |-> <<>>,            \* what the upstream has received
     up_flushed |-> FALSE,
     up_out |-> <<>>,           \* what the upstream writes before closing
     up_reads |-> 0,            \* history: reads issued on the upstream
     client_in |-> <<>>,        \* what the client has received
     client_flushed |-> FALSE,
     closed |-> FALSE,          \* the client stream was dropped
     client_eof |-> FALSE,      \* the client has closed its send side
     up_eof |-> FALSE,          \* the upstream has closed its side
     failed_at |-> "none"]

\* a client bidi stream that has not been handed to forward_quic_stream
IdleQuic ==
    [pc |-> "off",
     client_sent |-> <<>>,
     buffer |-> <<>>,
     up_connected |-> FALSE,
     up_opened |-> FALSE,
     up_in |-> <<>>,
     up_finished |-> FALSE,
     up_out |-> <<>>,
     up_reads |-> 0,
     response |-> <<>>,
     client_in |-> <<>>,
     client_finished |-> FALSE,
     err |-> "none"]

\* a DoQ connection that has not been handed to handle_connection
IdleDoq ==
    [pc |-> "off",
     streams |-> 0,             \* bidi streams accepted so far
     stream_failed |-> FALSE,   \* history: a step failed while serving a stream
     client_sent |-> <<>>,
     buffer |-> <<>>,
     up_connected |-> FALSE,
     up_opened |-> FALSE,
     up_in |-> <<>>,
     up_finished |-> FALSE,
     up_out |-> <<>>,
     up_reads |-> 0,
     response |-> <<>>,
     client_in |-> <<>>,
     client_finished |-> FALSE]

\* a DoH connection on which the server is not running
IdleDoh ==
    [pc |-> "off",
     req |-> IdleHttp.req,
     target |-> <<>>, body |-> <<>>,
     fwd |-> IdleHttp.fwd,
     up |-> [kind |-> "none", status |-> 0, body |-> <<>>],
     result |-> [kind |-> "none", status |-> 0, body |-> <<>>],
     nreq |-> 0]

\* a DoH3 connection on which the server is not running
IdleDoh3 ==
    [pc |-> "off",
     req |-> IdleHttp.req,
     target |-> <<>>, body |-> <<>>,
     fwd |-> IdleHttp.fwd,
     up |-> [kind |-> "none", status |-> 0, body |-> <<>>],
     response |-> [some |-> FALSE, status |-> 0],   \* the Response<()> to send
     client |-> [responded |-> FALSE, status |-> 0, data |-> <<>>, finished |-> FALSE],
     result |-> "none",
     nreq |-> 0]

(***************************************************************************)
(* The listeners and the back-off counter at construction                  *)
(***************************************************************************)
\* the TCP front ends whose start() runs an accept loop
TcpFronts == {"dot", "doh"}

\* an accept loop before its first accept(): where it is, and how many
\* accept errors, sleeps and accepted connections it has seen
IdleListener ==
    [pc |-> "accept", errors |-> 0, sleeps |-> 0, accepted |-> 0, delay |-> 0]

\* the threads that share one BackoffCounter
BkThreads == {"b1", "b2", "b3"}

\* BackoffCounter::new(): the counter is 0; calls and last are the history of
\* next_delay: how many calls returned, and the arguments and the delay of the
\* last one; thr is where each concurrent caller is in its call, with the
\* attempt it fetched and the delay it returned last
NewBackoff ==
    [counter |-> 0, calls |-> 0,
     last |-> [base_delay_ms |-> 0, max_delay_ms |-> 0, delay |-> 0],
     thr |-> [t \in BkThreads |-> [pc |-> "idle", attempt |-> 0, delay |-> 0]]]

(***************************************************************************)
(* The connection pool and the certificate resolver at construction        *)
(***************************************************************************)
Snis == {"s1", "s2"}
PoolThreads == {"p1", "p2"}

\* ConnectionPool::with_config: no client yet.  A handle is named by the
\* number of the client it was constructed as; 0 is no handle.  returned is
\* the history of (sni, handle) pairs get_client has returned.
NewPool ==
    [clients |-> [s \in Snis |-> 0],
     created |-> 0,
     thr |-> [t \in PoolThreads |-> [pc |-> "idle", sni |-> "s1", client_arc |-> 0]],
     returned |-> {},
     ncalls |-> 0]

Domains == {"d1", "d2"}
CertThreads == {"r1", "r2"}

\* a keypair file pair on disk: readable and well-formed, or not
FileStates == {"good", "bad"}

\* TlsConfig: the entries of tls.certs ("none": no entry) and tls.default
TlsConfigs ==
    [certs : [Domains -> {"none"} \cup FileStates], default : {"none"} \cup FileStates]

\* TlsConfig::default(): no entry and no default keypair
DefaultTls == [certs |-> [d \in Domains |-> "none"], default |-> "none"]

\* CertificateResolver::new: an empty cert_cache.  A CertifiedKey object is
\* named by the number of the load that built it; 0 is no entry.  done is the
\* history of the resolves that have returned, nfailed counts the failed ones.
NewResolver(tls) ==
    [tls |-> tls,
     cert_cache |-> [d \in Domains |-> 0],
     loaded |-> 0,
     thr |-> [t \in CertThreads |->
                [pc |-> "idle", domain |-> "d1", file |-> "none", cert |-> 0,
                 lookup |-> FALSE, io |-> FALSE, result |-> "none"]],
     done |-> {},
     nfailed |-> [d \in Domains |-> 0],
     ncalls |-> 0]

(***************************************************************************)
(* The metrics' callers, histogram, clock and memoized snapshot            *)
(***************************************************************************)
MtThreads == {"m1", "m2"}

\* the callers of snapshot()
SnapThreads == {"s1", "s2"}

\* a value of type f64 computed as a quotient, kept exact
Ratio(num, den) == IF num = 0 THEN [num |-> 0, den |-> 1] ELSE [num |-> num, den |-> den]

\* Metrics::generate_snapshot: the counters as read, the success rate in
\* per cent and the average of the histogram in milliseconds, both 0 when
\* nothing was counted
generate_snapshot(m, hist) ==
    [total_requests |-> m.total_requests,
     successful_requests |-> m.successful_requests,
     failed_requests |-> m.failed_requests,
     bytes_received |-> m.bytes_received,
     bytes_sent |-> m.bytes_sent,
     sni_rewrites |-> m.sni_rewrites,
     upstream_errors |-> m.upstream_errors,
     average_processing_time_ms |->
         IF hist.count > 0 THEN Ratio(hist.sum_ms, hist.count) ELSE Ratio(0, 1),
     success_rate |->
         IF m.total_requests > 0 THEN Ratio(m.successful_requests * 100, m.total_requests)
         ELSE Ratio(0, 1),
     throughput_requests_per_sec |-> m.total_requests]

\* the snapshot of a Metrics nothing was recorded on
ZeroSnapshot == generate_snapshot(NewMetrics, [sum_ms |-> 0, count |-> 0])

\* a snapshot() call that has not started: where it is, the snapshot it is
\* generating, what it returned and how (memoized or generated), and the
\* largest total_requests that calls which had returned before it started
\* have reported (floor)
IdleSnap ==
    [pc |-> "idle", kind |-> "none", snapshot |-> ZeroSnapshot, result |-> ZeroSnapshot,
     floor |-> 0]

\* a record_request call that has not started
IdleRecord ==
    [pc |-> "idle", success |-> TRUE, bytes_received_val |-> 0, bytes_sent_val |-> 0,
     duration_ms |-> 0]

\* Metrics::new besides the counters: an empty histogram and no memoized
\* snapshot; the clock; the callers of record_request and of snapshot; and the
\* history: the calls started (ncalls), the sums over the record_request calls
\* that have returned (done), the record_sni_rewrite and record_upstream_error
\* calls (nsni, nerr), the snapshot calls of each caller and the export calls (nsnap, nexport), the
\* largest total_requests a snapshot call has returned (reported)
NewMt ==
    [thr |-> [t \in MtThreads |-> IdleRecord],
     hist |-> [sum_ms |-> 0, count |-> 0],
     now |-> 0,
     cached_snapshot |-> [some |-> FALSE, snapshot |-> ZeroSnapshot, timestamp |-> 0],
     snap |-> [s \in SnapThreads |-> IdleSnap],
     reported |-> 0,
     ncalls |-> 0,
     done |-> [n |-> 0, success |-> 0, failed |-> 0, bytes_received |-> 0, bytes_sent |-> 0],
     nsni |-> 0, nerr |-> 0, nsnap |-> [s \in SnapThreads |-> 0], nexport |-> 0]

\* the servers App::start starts, in the order it starts them
StartOrder == <<"healthcheck", "dot", "doh", "doq", "doh3">>

Servers == {StartOrder[i] : i \in 1..Len(StartOrder)}

\* the places where a server's start() returns an error before its accept loop
FailurePoints(s) ==
    CASE s = "dot" -> {"tls_config", "bind", "upstream_addr"}
      [] s \in {"doq", "doh3"} -> {"tls_config", "bind"}
      [] OTHER -> {"bind"}

\* the servers whose accept loop sleeps after an accept error
SleepingServers == {"dot"}

\* the servers whose connection tasks are followed
ConnServers == {"dot", "doh3"}

\* servers.*.enabled of AppConfig::default
DefaultEnabled == [s \in Servers |-> s # "doh3"]

\* main before App::new, for the servers enabled in the configuration: the
\* supervisor's position (pc, next: the start_*_server to call), App.handles
\* (each handle named by its server), the state of each server task, the
\* connection task a server has spawned, a direct call of a server's start(),
\* and history: the servers that have bound a listener (bound), the servers
\* whose task has logged an error (logged), what App::start returned
\* (start_result), whether the connection task updated the metrics after
\* wait_for_shutdown had returned (late)
NewApp(enabled) ==
    [enabled |-> enabled,
     pc |-> "new",
     next |-> 1,
     handles |-> <<>>,
     task |-> [s \in Servers |-> "none"],
     conn |-> [state |-> "none", owner |-> "none"],
     direct |-> [server |-> "none", result |-> "none"],
     bound |-> {},
     logged |-> {},
     start_result |-> "none",
     late |-> FALSE]

InitLib ==
    /\ listener = [f \in TcpFronts |-> IdleListener]
    /\ backoff = NewBackoff
    /\ pool = NewPool
    /\ certs = NewResolver(DefaultTls)
    /\ mt = NewMt
    /\ app = NewApp(DefaultEnabled)

InitIo ==
    /\ metrics = NewMetrics
    /\ http = IdleHttp
    /\ dot = IdleDot
    /\ quic = IdleQuic
    /\ doq = IdleDoq
    /\ doh = IdleDoh
    /\ doh3 = IdleDoh3
    /\ InitLib

(***************************************************************************)
(* SpecRewrite: one rewrite(h) on a fresh rewriter, for every hostname and *)
(* every configuration within the bounds                                   *)
(***************************************************************************)
InitRewrite ==
    /\ config \in Configs
    /\ sni_map = <<>>
    /\ \E h \in Hostnames :
         rw = [c \in Callers |->
                 IF c = "t1" THEN [IdleCall EXCEPT !.pc = "called", !.sni = h]
                 ELSE IdleCall]
    /\ completed = {}
    /\ ncalls = 1
    /\ nmatched = 0
    /\ InitIo

NextRewrite ==
    \/ RewriteValidate("t1")
    \/ RewriteInsert("t1")
    \/ RewriteReturn("t1")

SpecRewrite == InitRewrite /\ [][NextRewrite]_vars

(***************************************************************************)
(* SpecCache: callers sharing one rewriter, their calls interleaved        *)
(***************************************************************************)
InitCache ==
    /\ config \in ConcConfigs
    /\ sni_map = <<>>
    /\ rw = [c \in Callers |-> IdleCall]
    /\ completed = {}
    /\ ncalls = 0
    /\ nmatched = 0
    /\ InitIo

NextCache ==
    \E c \in DirectCallers :
        \/ \E h \in ConcHosts : RewriteCall(c, h)
        \/ RewriteValidate(c)
        \/ RewriteInsert(c)
        \/ RewriteReturn(c)

SpecCache == InitCache /\ [][NextCache]_vars

(***************************************************************************)
(* handle_http_request and forward_http_request: one request at a time     *)
(***************************************************************************)
MaxRequests == 2

Methods == {"GET", "POST", "PUT"}

UpStatuses == {200, 500}

HttpHosts == {<<"a", ".", "a">>, <<"a", ".", "A">>}

HttpConfigs ==
    [base_domains : ConcBaseLists, target_suffix : {<<".", "A">>},
     rewrite_failure_strategy : Strategies]

\* the text of a synthesized error response, standing for format!("Upstream ...")
ErrorText(status) == IF status = 502 THEN <<5, 0, 2>> ELSE <<5, 0, 4>>

\* a variant that forwards an empty body whatever the method
CollectBodyDropped(method, body) == <<>>

\* the body handle_http_request forwards: the collected body of a POST, else empty
CollectBody(method, body) == IF method = "POST" THEN body ELSE <<>>

HttpErr == [kind |-> "err", status |-> 0, body |-> <<>>, bytes_sent |-> 0]

HttpOk(status, body) ==
    [kind |-> "ok", status |-> status, body |-> body, bytes_sent |-> Len(body)]

\* a request arrives: its method, its Host header (or none) and its body
HttpReceive(m, h, b, hs, pq) ==
    /\ http.pc \in {"idle", "done"}
    /\ http.nreq < MaxRequests
    /\ http' = [IdleHttp EXCEPT !.pc = "host",
                                !.req = [method |-> m, host |-> h, body |-> b,
                                         headers |-> hs, path_and_query |-> pq],
                                !.nreq = http.nreq + 1]
    /\ UNCHANGED <<config, sni_map, rw, completed, ncalls, nmatched, metrics, dot, quic, doq, doh, doh3, libVars>>

\* the Host header is extracted; a missing or invalid one is returned as Err
HttpExtractHost ==
    /\ http.pc = "host"
    /\ http' = IF http.req.host.some
               THEN [http EXCEPT !.pc = "rewrite"]
               ELSE [http EXCEPT !.pc = "done", !.result = HttpErr]
    /\ UNCHANGED <<config, sni_map, rw, completed, ncalls, nmatched, metrics, dot, quic, doq, doh, doh3, libVars>>

\* rewriter.rewrite(host) is called
HttpCallRewrite ==
    /\ http.pc = "rewrite"
    /\ rw["http"].pc \in {"idle", "done"}
    /\ rw' = [rw EXCEPT !["http"] = [IdleCall EXCEPT !.pc = "called", !.sni = http.req.host.v]]
    /\ ncalls' = ncalls + 1
    /\ http' = [http EXCEPT !.pc = "rewriting"]
    /\ UNCHANGED <<config, sni_map, completed, nmatched, metrics, dot, quic, doq, doh, doh3, libVars>>

\* the rewrite has returned: None is returned as Err, Some is counted as an SNI rewrite
HttpAfterRewrite ==
    /\ http.pc = "rewriting"
    /\ rw["http"].pc = "done"
    /\ IF rw["http"].result.some
       THEN /\ metrics' = RecordSniRewrite(metrics)
            /\ http' = [http EXCEPT !.pc = "body",
                                    !.target = rw["http"].result.target_hostname]
       ELSE /\ metrics' = metrics
            /\ http' = [http EXCEPT !.pc = "done", !.result = HttpErr]
    /\ UNCHANGED <<config, sni_map, rw, completed, ncalls, nmatched, dot, quic, doq, doh, doh3, libVars>>

\* the request body is read (POST only)
HttpReadBody ==
    /\ http.pc = "body"
    /\ http' = [http EXCEPT !.pc = "forward",
                            !.body = CollectBody(http.req.method, http.req.body)]
    /\ UNCHANGED <<config, sni_map, rw, completed, ncalls, nmatched, metrics, dot, quic, doq, doh, doh3, libVars>>

\* reading the body of a POST fails: returned as Err
HttpReadBodyFail ==
    /\ http.pc = "body"
    /\ http.req.method = "POST"
    /\ http' = [http EXCEPT !.pc = "done", !.result = HttpErr]
    /\ UNCHANGED <<config, sni_map, rw, completed, ncalls, nmatched, metrics, dot, quic, doq, doh, doh3, libVars>>

\* forward_http_request builds the upstream request and sends it
HttpSend ==
    /\ http.pc = "forward"
    /\ http' = [http EXCEPT !.pc = "upstream",
                            !.fwd = [sent |-> TRUE, method |-> http.req.method,
                                     host |-> http.target, body |-> http.body,
                                     headers |->
                                         HeaderInsert(
                                             CopyHeaders(RequestHeaders(http.req), 1,
                                                         skip_headers, <<>>),
                                             "host", http.target),
                                     uri |-> UpstreamUri(http.target,
                                                         http.req.path_and_query)]]
    /\ UNCHANGED <<config, sni_map, rw, completed, ncalls, nmatched, metrics, dot, quic, doq, doh, doh3, libVars>>

\* building the upstream request fails (URI or Host value rejected): Err
HttpBuildFail ==
    /\ http.pc = "forward"
    /\ http' = [http EXCEPT !.pc = "record_err"]
    /\ UNCHANGED <<config, sni_map, rw, completed, ncalls, nmatched, metrics, dot, quic, doq, doh, doh3, libVars>>

\* the upstream answers and its body is collected
HttpUpstreamResponse(status, b) ==
    /\ http.pc = "upstream"
    /\ http' = [http EXCEPT !.pc = "record_ok",
                            !.up = [kind |-> "response", status |-> status, body |-> b],
                            !.result = HttpOk(status, b)]
    /\ UNCHANGED <<config, sni_map, rw, completed, ncalls, nmatched, metrics, dot, quic, doq, doh, doh3, libVars>>

\* the upstream answers but collecting its body fails: Err
HttpUpstreamBodyFail(status, b) ==
    /\ http.pc = "upstream"
    /\ http' = [http EXCEPT !.pc = "record_err",
                            !.up = [kind |-> "broken", status |-> status, body |-> b]]
    /\ UNCHANGED <<config, sni_map, rw, completed, ncalls, nmatched, metrics, dot, quic, doq, doh, doh3, libVars>>

\* the upstream's response head arrives within the 30 s, and its body never
\* completes: body.collect() is awaited
HttpUpstreamStall(status) ==
    /\ http.pc = "upstream"
    /\ http' = [http EXCEPT !.pc = "collect",
                            !.up = [kind |-> "stalled", status |-> status, body |-> <<>>]]
    /\ UNCHANGED <<config, sni_map, rw, completed, ncalls, nmatched, metrics, dot, quic, doq, doh, doh3, libVars>>

\* 30 s have passed since the request was sent: the timeout wrapped the
\* request future only, which has completed, and body.collect() is still
\* awaited
HttpDeadlinePasses ==
    /\ http.pc = "collect"
    /\ ~http.deadline_passed
    /\ http' = [http EXCEPT !.deadline_passed = TRUE]
    /\ UNCHANGED <<config, sni_map, rw, completed, ncalls, nmatched, metrics, dot, quic, doq, doh, doh3, libVars>>

\* the client reports a transport error: a 502 response is synthesized
HttpUpstreamTransportError ==
    /\ http.pc = "upstream"
    /\ http' = [http EXCEPT !.pc = "record_ok",
                            !.up = [kind |-> "transport_error", status |-> 0, body |-> <<>>],
                            !.result = HttpOk(502, ErrorText(502))]
    /\ UNCHANGED <<config, sni_map, rw, completed, ncalls, nmatched, metrics, dot, quic, doq, doh, doh3, libVars>>

\* a variant that answers a timeout like a transport error
HttpUpstreamTimeoutAs502 ==
    /\ http.pc = "upstream"
    /\ http' = [http EXCEPT !.pc = "record_ok",
                            !.up = [kind |-> "timeout", status |-> 0, body |-> <<>>],
                            !.result = HttpOk(502, ErrorText(502))]
    /\ UNCHANGED <<config, sni_map, rw, completed, ncalls, nmatched, metrics, dot, quic, doq, doh, doh3, libVars>>

\* the 30 s timeout fires first: a 504 response is synthesized
HttpUpstreamTimeout ==
    /\ http.pc = "upstream"
    /\ http' = [http EXCEPT !.pc = "record_ok",
                            !.up = [kind |-> "timeout", status |-> 0, body |-> <<>>],
                            !.result = HttpOk(504, ErrorText(504))]
    /\ UNCHANGED <<config, sni_map, rw, completed, ncalls, nmatched, metrics, dot, quic, doq, doh, doh3, libVars>>

\* forward_http_request returned Ok: a successful request is recorded
HttpRecordOk ==
    /\ http.pc = "record_ok"
    /\ metrics' = RecordRequest(metrics, TRUE, Len(http.body), http.result.bytes_sent)
    /\ http' = [http EXCEPT !.pc = "done"]
    /\ UNCHANGED <<config, sni_map, rw, completed, ncalls, nmatched, dot, quic, doq, doh, doh3, libVars>>

\* forward_http_request returned Err: a failed request and an upstream error are recorded
HttpRecordErr ==
    /\ http.pc = "record_err"
    /\ metrics' = RecordUpstreamError(RecordRequest(metrics, FALSE, Len(http.body), 0))
    /\ http' = [http EXCEPT !.pc = "done", !.result = HttpErr]
    /\ UNCHANGED <<config, sni_map, rw, completed, ncalls, nmatched, dot, quic, doq, doh, doh3, libVars>>

(***************************************************************************)
(* SpecHttp: requests through handle_http_request, one after the other     *)
(***************************************************************************)
InitHttp ==
    /\ config \in HttpConfigs
    /\ sni_map = <<>>
    /\ rw = [c \in Callers |-> IdleCall]
    /\ completed = {}
    /\ ncalls = 0
    /\ nmatched = 0
    /\ InitIo

NextHttp ==
    \/ \E m \in Methods, h \in {NoneStr} \cup {SomeStr(x) : x \in HttpHosts}, b \in Bodies,
          hs \in HeaderLists, pq \in PathQueries :
          HttpReceive(m, h, b, hs, pq)
    \/ HttpExtractHost
    \/ HttpCallRewrite
    \/ HttpAfterRewrite
    \/ HttpReadBody
    \/ HttpReadBodyFail
    \/ HttpSend
    \/ HttpBuildFail
    \/ \E st \in UpStatuses, b \in Bodies : HttpUpstreamResponse(st, b)
    \/ \E st \in UpStatuses, b \in Bodies : HttpUpstreamBodyFail(st, b)
    \/ \E st \in UpStatuses : HttpUpstreamStall(st)
    \/ HttpDeadlinePasses
    \/ HttpUpstreamTransportError
    \/ HttpUpstreamTimeout
    \/ HttpRecordOk
    \/ HttpRecordErr
    \/ RewriteValidate("http")
    \/ RewriteInsert("http")
    \/ RewriteReturn("http")

SpecHttp == InitHttp /\ [][NextHttp]_vars

(***************************************************************************)
(* DoHServer::handle_request: the requests of one connection, in turn      *)
(***************************************************************************)
DohUnchanged == <<config, sni_map, rw, completed, ncalls, nmatched, metrics, http,
                  dot, quic, doq, doh3, libVars>>

DohErr == [kind |-> "err", status |-> 0, body |-> <<>>]

DohOk(status, body) == [kind |-> "ok", status |-> status, body |-> body]

\* the text of "Method not allowed"
MethodNotAllowedText == <<4, 0, 5>>

\* a request arrives on the connection
DohReceive(m, h, b, hs, pq) ==
    /\ doh.pc \in {"idle", "done"}
    /\ doh.nreq < MaxRequests
    /\ doh' = [IdleDoh EXCEPT !.pc = "host",
                              !.req = [method |-> m, host |-> h, body |-> b,
                                       headers |-> hs, path_and_query |-> pq],
                              !.nreq = doh.nreq + 1]
    /\ UNCHANGED DohUnchanged

\* the Host header is extracted; a missing or invalid one is returned as Err
DohExtractHost ==
    /\ doh.pc = "host"
    /\ doh' = IF doh.req.host.some
              THEN [doh EXCEPT !.pc = "rewrite"]
              ELSE [doh EXCEPT !.pc = "done", !.result = DohErr]
    /\ UNCHANGED DohUnchanged

\* rewriter.rewrite(host) is called
DohCallRewrite ==
    /\ doh.pc = "rewrite"
    /\ rw["doh"].pc \in {"idle", "done"}
    /\ rw' = [rw EXCEPT !["doh"] = [IdleCall EXCEPT !.pc = "called", !.sni = doh.req.host.v]]
    /\ ncalls' = ncalls + 1
    /\ doh' = [doh EXCEPT !.pc = "rewriting"]
    /\ UNCHANGED <<config, sni_map, completed, nmatched, metrics, http, dot, quic, doq, doh3, libVars>>

\* the rewrite has returned: None is returned as Err
DohAfterRewrite ==
    /\ doh.pc = "rewriting"
    /\ rw["doh"].pc = "done"
    /\ doh' = IF rw["doh"].result.some
              THEN [doh EXCEPT !.pc = "method", !.target = rw["doh"].result.target_hostname]
              ELSE [doh EXCEPT !.pc = "done", !.result = DohErr]
    /\ UNCHANGED DohUnchanged

\* a method other than GET and POST is answered 405 at once
DohMethodNotAllowed ==
    /\ doh.pc = "method"
    /\ doh.req.method \notin {"GET", "POST"}
    /\ doh' = [doh EXCEPT !.pc = "done", !.result = DohOk(405, MethodNotAllowedText)]
    /\ UNCHANGED DohUnchanged

\* handle_get_request takes an empty body, handle_post_request collects the body
DohReadBody ==
    /\ doh.pc = "method"
    /\ doh.req.method \in {"GET", "POST"}
    /\ doh' = [doh EXCEPT !.pc = "forward",
                          !.body = IF doh.req.method = "POST" THEN doh.req.body ELSE <<>>]
    /\ UNCHANGED DohUnchanged

\* collecting the body of a POST fails: Err
DohReadBodyFail ==
    /\ doh.pc = "method"
    /\ doh.req.method = "POST"
    /\ doh' = [doh EXCEPT !.pc = "done", !.result = DohErr]
    /\ UNCHANGED DohUnchanged

\* the upstream request is built, every header copied, host overwritten, and sent
DohSend ==
    /\ doh.pc = "forward"
    /\ doh' = [doh EXCEPT !.pc = "upstream",
                          !.fwd = [sent |-> TRUE, method |-> doh.req.method,
                                   host |-> doh.target, body |-> doh.body,
                                   headers |->
                                       HeaderInsert(
                                           CopyHeaders(RequestHeaders(doh.req), 1, {}, <<>>),
                                           "host", doh.target),
                                   uri |-> UpstreamUri(doh.target, doh.req.path_and_query)]]
    /\ UNCHANGED DohUnchanged

\* building the upstream request fails (URI or Host value rejected): Err
DohBuildFail ==
    /\ doh.pc = "forward"
    /\ doh' = [doh EXCEPT !.pc = "done", !.result = DohErr]
    /\ UNCHANGED DohUnchanged

\* forward_request: the upstream answers and its body is collected
DohUpstreamResponse(status, b) ==
    /\ doh.pc = "upstream"
    /\ doh' = [doh EXCEPT !.pc = "done",
                          !.up = [kind |-> "response", status |-> status, body |-> b],
                          !.result = DohOk(status, b)]
    /\ UNCHANGED DohUnchanged

\* forward_request: the upstream answers but collecting its body fails: Err
DohUpstreamBodyFail(status, b) ==
    /\ doh.pc = "upstream"
    /\ doh' = [doh EXCEPT !.pc = "done",
                          !.up = [kind |-> "broken", status |-> status, body |-> b],
                          !.result = DohErr]
    /\ UNCHANGED DohUnchanged

\* forward_request: the client reports an error: a 502 response is synthesized
DohUpstreamError ==
    /\ doh.pc = "upstream"
    /\ doh' = [doh EXCEPT !.pc = "done",
                          !.up = [kind |-> "transport_error", status |-> 0, body |-> <<>>],
                          !.result = DohOk(502, ErrorText(502))]
    /\ UNCHANGED DohUnchanged

NextDoh ==
    \/ \E m \in Methods, h \in {NoneStr} \cup {SomeStr(x) : x \in HttpHosts}, b \in Bodies,
          hs \in HeaderLists, pq \in PathQueries :
          DohReceive(m, h, b, hs, pq)
    \/ DohExtractHost
    \/ DohCallRewrite
    \/ DohAfterRewrite
    \/ DohMethodNotAllowed
    \/ DohReadBody
    \/ DohReadBodyFail
    \/ DohSend
    \/ DohBuildFail
    \/ \E st \in UpStatuses, b \in Bodies : DohUpstreamResponse(st, b)
    \/ \E st \in UpStatuses, b \in Bodies : DohUpstreamBodyFail(st, b)
    \/ DohUpstreamError
    \/ RewriteValidate("doh")
    \/ RewriteInsert("doh")
    \/ RewriteReturn("doh")

(***************************************************************************)
(* DoH3Server::handle_request: the requests of one connection, in turn     *)
(***************************************************************************)
Doh3Unchanged == <<config, sni_map, rw, completed, ncalls, nmatched, metrics, http,
                   dot, quic, doq, doh, libVars>>

\* a request is resolved on the connection
Doh3Receive(m, h, b, pq) ==
    /\ doh3.pc \in {"idle", "done"}
    /\ doh3.nreq < MaxRequests
    /\ doh3' = [IdleDoh3 EXCEPT !.pc = "host",
                                !.req = [method |-> m, host |-> h, body |-> b,
                                         headers |-> <<>>, path_and_query |-> pq],
                                !.nreq = doh3.nreq + 1]
    /\ UNCHANGED Doh3Unchanged

\* the Host header is extracted; a missing or invalid one is returned as Err
Doh3ExtractHost ==
    /\ doh3.pc = "host"
    /\ doh3' = IF doh3.req.host.some
               THEN [doh3 EXCEPT !.pc = "rewrite"]
               ELSE [doh3 EXCEPT !.pc = "done", !.result = "err"]
    /\ UNCHANGED Doh3Unchanged

\* rewriter.rewrite(host) is called
Doh3CallRewrite ==
    /\ doh3.pc = "rewrite"
    /\ rw["doh3"].pc \in {"idle", "done"}
    /\ rw' = [rw EXCEPT !["doh3"] = [IdleCall EXCEPT !.pc = "called", !.sni = doh3.req.host.v]]
    /\ ncalls' = ncalls + 1
    /\ doh3' = [doh3 EXCEPT !.pc = "rewriting"]
    /\ UNCHANGED <<config, sni_map, completed, nmatched, metrics, http, dot, quic, doq, doh, libVars>>

\* the rewrite has returned: None is returned as Err
Doh3AfterRewrite ==
    /\ doh3.pc = "rewriting"
    /\ rw["doh3"].pc = "done"
    /\ doh3' = IF rw["doh3"].result.some
               THEN [doh3 EXCEPT !.pc = "body", !.target = rw["doh3"].result.target_hostname]
               ELSE [doh3 EXCEPT !.pc = "done", !.result = "err"]
    /\ UNCHANGED Doh3Unchanged

\* the request body is received to its end (POST only)
Doh3ReadBody ==
    /\ doh3.pc = "body"
    /\ doh3' = [doh3 EXCEPT !.pc = "method",
                            !.body = IF doh3.req.method = "POST" THEN doh3.req.body ELSE <<>>]
    /\ UNCHANGED Doh3Unchanged

\* stream.recv_data fails: Err
Doh3ReadBodyFail ==
    /\ doh3.pc = "body"
    /\ doh3.req.method = "POST"
    /\ doh3' = [doh3 EXCEPT !.pc = "done", !.result = "err"]
    /\ UNCHANGED Doh3Unchanged

\* a method other than GET and POST: a 405 response, nothing sent upstream
Doh3MethodNotAllowed ==
    /\ doh3.pc = "method"
    /\ doh3.req.method \notin {"GET", "POST"}
    /\ doh3' = [doh3 EXCEPT !.pc = "send_response",
                            !.response = [some |-> TRUE, status |-> 405]]
    /\ UNCHANGED Doh3Unchanged

\* handle_get_request / handle_post_request build the upstream request, set
\* its host header and send it
Doh3Send ==
    /\ doh3.pc = "method"
    /\ doh3.req.method \in {"GET", "POST"}
    /\ doh3' = [doh3 EXCEPT !.pc = "upstream",
                            !.fwd = [sent |-> TRUE, method |-> doh3.req.method,
                                     host |-> doh3.target, body |-> doh3.body,
                                     headers |-> HeaderInsert(<<>>, "host", doh3.target),
                                     uri |-> UpstreamUri(doh3.target,
                                                         doh3.req.path_and_query)]]
    /\ UNCHANGED Doh3Unchanged

\* building the upstream request fails (URI or Host value rejected): Err
Doh3BuildFail ==
    /\ doh3.pc = "method"
    /\ doh3.req.method \in {"GET", "POST"}
    /\ doh3' = [doh3 EXCEPT !.pc = "done", !.result = "err"]
    /\ UNCHANGED Doh3Unchanged

\* the upstream answers: the response parts are kept, the body is let go
Doh3UpstreamResponse(status, b) ==
    /\ doh3.pc = "upstream"
    /\ doh3' = [doh3 EXCEPT !.pc = "send_response",
                            !.up = [kind |-> "response", status |-> status, body |-> b],
                            !.response = [some |-> TRUE, status |-> status]]
    /\ UNCHANGED Doh3Unchanged

\* the client reports an error: an empty 502 response
Doh3UpstreamError ==
    /\ doh3.pc = "upstream"
    /\ doh3' = [doh3 EXCEPT !.pc = "send_response",
                            !.up = [kind |-> "transport_error", status |-> 0, body |-> <<>>],
                            !.response = [some |-> TRUE, status |-> 502]]
    /\ UNCHANGED Doh3Unchanged

\* stream.send_response(response)
Doh3SendResponse ==
    /\ doh3.pc = "send_response"
    /\ doh3' = [doh3 EXCEPT !.pc = "finish",
                            !.client.responded = TRUE,
                            !.client.status = doh3.response.status]
    /\ UNCHANGED Doh3Unchanged

\* stream.finish, then Ok(())
Doh3Finish ==
    /\ doh3.pc = "finish"
    /\ doh3' = [doh3 EXCEPT !.pc = "done", !.client.finished = TRUE, !.result = "ok"]
    /\ UNCHANGED Doh3Unchanged

\* send_response or finish fails: Err
Doh3StreamFail ==
    /\ doh3.pc \in {"send_response", "finish"}
    /\ doh3' = [doh3 EXCEPT !.pc = "done", !.result = "err"]
    /\ UNCHANGED Doh3Unchanged

NextDoh3 ==
    \/ \E m \in Methods, h \in {NoneStr} \cup {SomeStr(x) : x \in HttpHosts}, b \in Bodies,
          pq \in PathQueries :
          Doh3Receive(m, h, b, pq)
    \/ Doh3ExtractHost
    \/ Doh3CallRewrite
    \/ Doh3AfterRewrite
    \/ Doh3ReadBody
    \/ Doh3ReadBodyFail
    \/ Doh3MethodNotAllowed
    \/ Doh3Send
    \/ Doh3BuildFail
    \/ \E st \in UpStatuses, b \in Bodies : Doh3UpstreamResponse(st, b)
    \/ Doh3UpstreamError
    \/ Doh3SendResponse
    \/ Doh3Finish
    \/ Doh3StreamFail
    \/ RewriteValidate("doh3")
    \/ RewriteInsert("doh3")
    \/ RewriteReturn("doh3")

(***************************************************************************)
(* SpecFront: the requests of one front-end (handle_http_request, the DoH  *)
(* server or the DoH3 server) under a configuration AppConfig::validate    *)
(* accepts                                                                 *)
(***************************************************************************)
\* the rewrite configurations validate lets the servers start with
ServerConfigs ==
    {c \in HttpConfigs : c.base_domains # <<>> /\ StartsWithChar(c.target_suffix, Dot)}

FrontEnds == {"http", "doh", "doh3"}

InitFront ==
    /\ config \in ServerConfigs
    /\ sni_map = <<>>
    /\ rw = [c \in Callers |-> IdleCall]
    /\ completed = {}
    /\ ncalls = 0
    /\ nmatched = 0
    /\ metrics = NewMetrics
    /\ dot = IdleDot
    /\ quic = IdleQuic
    /\ doq = IdleDoq
    /\ \E f \in FrontEnds :
          /\ http = [IdleHttp EXCEPT !.pc = IF f = "http" THEN "idle" ELSE "off"]
          /\ doh = [IdleDoh EXCEPT !.pc = IF f = "doh" THEN "idle" ELSE "off"]
          /\ doh3 = [IdleDoh3 EXCEPT !.pc = IF f = "doh3" THEN "idle" ELSE "off"]
    /\ InitLib

NextFront == NextHttp \/ NextDoh \/ NextDoh3

SpecFront == InitFront /\ [][NextFront]_vars

(***************************************************************************)
(* DoTServer: the task spawned per accepted connection                     *)
(***************************************************************************)
DotUnchanged ==
    <<config, sni_map, rw, completed, ncalls, nmatched, http, quic, doq, doh, doh3, libVars>>

\* acceptor.accept(stream): the server-side TLS handshake
DotAccept ==
    /\ dot.pc = "handshake"
    /\ dot' = [dot EXCEPT !.pc = "read_client"]
    /\ UNCHANGED <<metrics, DotUnchanged>>

\* the handshake fails: logged, nothing else
DotAcceptFail ==
    /\ dot.pc = "handshake"
    /\ dot' = [dot EXCEPT !.pc = "done_hs_err", !.closed = TRUE]
    /\ UNCHANGED <<metrics, DotUnchanged>>

\* read_to_end on the client: one read that returns k more bytes
DotReadClient(k) ==
    /\ dot.pc = "read_client"
    /\ k \in 1..(Len(dot.client_sent) - Len(dot.buffer))
    /\ dot' = [dot EXCEPT !.buffer = @ \o Chunk(dot.client_sent, Len(dot.buffer), k)]
    /\ UNCHANGED <<metrics, DotUnchanged>>

\* the client closes its send side, having written what it had to send
DotClientClose ==
    /\ dot.pc \notin {"off", "handshake"}
    /\ ~dot.client_eof
    /\ dot' = [dot EXCEPT !.client_eof = TRUE]
    /\ UNCHANGED <<metrics, DotUnchanged>>

\* the upstream closes its side, having written its response
DotUpstreamClose ==
    /\ dot.up_connected
    /\ ~dot.up_eof
    /\ dot' = [dot EXCEPT !.up_eof = TRUE]
    /\ UNCHANGED <<metrics, DotUnchanged>>

\* a variant that takes the bytes read so far for the message, without
\* waiting for the client's EOF
DotReadClientEofEarly ==
    /\ dot.pc = "read_client"
    /\ Len(dot.buffer) = Len(dot.client_sent)
    /\ dot' = IF dot.buffer = <<>>
              THEN [dot EXCEPT !.pc = "done_empty", !.closed = TRUE]
              ELSE [dot EXCEPT !.pc = "connect", !.bytes_received = Len(dot.buffer)]
    /\ UNCHANGED <<metrics, DotUnchanged>>

\* a variant without the empty-buffer check
DotReadClientEofNoCheck ==
    /\ dot.pc = "read_client"
    /\ dot.client_eof
    /\ Len(dot.buffer) = Len(dot.client_sent)
    /\ dot' = [dot EXCEPT !.pc = "connect", !.bytes_received = Len(dot.buffer)]
    /\ UNCHANGED <<metrics, DotUnchanged>>

\* read_to_end on the client sees EOF; an empty buffer returns Ok at once
DotReadClientEof ==
    /\ dot.pc = "read_client"
    /\ dot.client_eof
    /\ Len(dot.buffer) = Len(dot.client_sent)
    /\ dot' = IF dot.buffer = <<>>
              THEN [dot EXCEPT !.pc = "done_empty", !.closed = TRUE]
              ELSE [dot EXCEPT !.pc = "connect", !.bytes_received = Len(dot.buffer)]
    /\ UNCHANGED <<metrics, DotUnchanged>>

\* TcpStream::connect(upstream)
DotConnect ==
    /\ dot.pc = "connect"
    /\ dot' = [dot EXCEPT !.pc = "tls_connect"]
    /\ UNCHANGED <<metrics, DotUnchanged>>

\* the client configuration, the server name and the TLS handshake with the upstream
DotTlsConnect ==
    /\ dot.pc = "tls_connect"
    /\ dot' = [dot EXCEPT !.pc = "write_up", !.up_connected = TRUE]
    /\ UNCHANGED <<metrics, DotUnchanged>>

\* a variant that issues one write and moves on, whatever it wrote
DotWriteUpOnce(k) ==
    /\ dot.pc = "write_up"
    /\ k \in 1..(Len(dot.buffer) - Len(dot.up_in))
    /\ dot' = [dot EXCEPT !.up_in = @ \o Chunk(dot.buffer, Len(dot.up_in), k),
                          !.pc = "flush_up"]
    /\ UNCHANGED <<metrics, DotUnchanged>>

\* write_all to the upstream: one write of k more bytes; the last one ends the loop
DotWriteUp(k) ==
    /\ dot.pc = "write_up"
    /\ k \in 1..(Len(dot.buffer) - Len(dot.up_in))
    /\ dot' = [dot EXCEPT !.up_in = @ \o Chunk(dot.buffer, Len(dot.up_in), k),
                          !.pc = IF Len(dot.up_in) + k = Len(dot.buffer)
                                 THEN "flush_up" ELSE "write_up"]
    /\ UNCHANGED <<metrics, DotUnchanged>>

\* a variant that starts reading the response before the request is written out
DotFlushUpSkipped ==
    /\ dot.pc \in {"write_up", "flush_up"}
    /\ dot' = [dot EXCEPT !.pc = "read_up", !.buffer = <<>>]
    /\ UNCHANGED <<metrics, DotUnchanged>>

\* flush to the upstream, then the buffer is cleared for the response
DotFlushUp ==
    /\ dot.pc = "flush_up"
    /\ dot' = [dot EXCEPT !.pc = "read_up", !.up_flushed = TRUE, !.buffer = <<>>]
    /\ UNCHANGED <<metrics, DotUnchanged>>

\* read_to_end on the upstream: one read that returns k more bytes
DotReadUp(k) ==
    /\ dot.pc = "read_up"
    /\ k \in 1..(Len(dot.up_out) - Len(dot.buffer))
    /\ dot' = [dot EXCEPT !.buffer = @ \o Chunk(dot.up_out, Len(dot.buffer), k),
                          !.up_reads = @ + 1]
    /\ UNCHANGED <<metrics, DotUnchanged>>

\* read_to_end on the upstream sees EOF
DotReadUpEof ==
    /\ dot.pc = "read_up"
    /\ dot.up_eof
    /\ Len(dot.buffer) = Len(dot.up_out)
    /\ dot' = [dot EXCEPT !.pc = IF dot.buffer = <<>> THEN "flush_client" ELSE "write_client",
                          !.bytes_sent = Len(dot.buffer),
                          !.up_reads = @ + 1]
    /\ UNCHANGED <<metrics, DotUnchanged>>

\* write_all to the client: one write of k more bytes
DotWriteClient(k) ==
    /\ dot.pc = "write_client"
    /\ k \in 1..(Len(dot.buffer) - Len(dot.client_in))
    /\ dot' = [dot EXCEPT !.client_in = @ \o Chunk(dot.buffer, Len(dot.client_in), k),
                          !.pc = IF Len(dot.client_in) + k = Len(dot.buffer)
                                 THEN "flush_client" ELSE "write_client"]
    /\ UNCHANGED <<metrics, DotUnchanged>>

\* flush to the client
DotFlushClient ==
    /\ dot.pc = "flush_client"
    /\ dot' = [dot EXCEPT !.pc = "record", !.client_flushed = TRUE]
    /\ UNCHANGED <<metrics, DotUnchanged>>

\* record_request(true, ...) and Ok(()): the stream is dropped
DotRecord ==
    /\ dot.pc = "record"
    /\ metrics' = RecordRequest(metrics, TRUE, dot.bytes_received, dot.bytes_sent)
    /\ dot' = [dot EXCEPT !.pc = "done_ok", !.closed = TRUE]
    /\ UNCHANGED DotUnchanged

\* any awaited I/O step of handle_connection fails: `?` returns the error
DotIoFail ==
    /\ dot.pc \in {"read_client", "connect", "tls_connect", "write_up", "flush_up",
                   "read_up", "write_client", "flush_client"}
    /\ dot' = [dot EXCEPT !.pc = "failed", !.failed_at = dot.pc, !.closed = TRUE,
                          !.up_reads = IF dot.pc = "read_up" THEN @ + 1 ELSE @]
    /\ UNCHANGED <<metrics, DotUnchanged>>

\* the task logs the error and records an upstream error
DotTaskError ==
    /\ dot.pc = "failed"
    /\ metrics' = RecordUpstreamError(metrics)
    /\ dot' = [dot EXCEPT !.pc = "done_err"]
    /\ UNCHANGED DotUnchanged

NextDot ==
    \/ DotAccept
    \/ DotAcceptFail
    \/ DotClientClose
    \/ DotUpstreamClose
    \/ \E k \in 1..MaxMsg : DotReadClient(k)
    \/ DotReadClientEof
    \/ DotConnect
    \/ DotTlsConnect
    \/ \E k \in 1..MaxMsg : DotWriteUp(k)
    \/ DotFlushUp
    \/ \E k \in 1..MaxMsg : DotReadUp(k)
    \/ DotReadUpEof
    \/ \E k \in 1..MaxMsg : DotWriteClient(k)
    \/ DotFlushClient
    \/ DotRecord
    \/ DotIoFail
    \/ DotTaskError

(***************************************************************************)
(* forward_quic_stream and forward_quic_dns: one client bidi stream        *)
(***************************************************************************)
QuicUnchanged ==
    <<config, sni_map, rw, completed, ncalls, nmatched, metrics, http, dot, doq, doh, doh3, libVars>>

\* client_recv.read returns k more bytes
QuicReadClient(k) ==
    /\ quic.pc = "read_client"
    /\ k \in 1..(Len(quic.client_sent) - Len(quic.buffer))
    /\ quic' = [quic EXCEPT !.buffer = @ \o Chunk(quic.client_sent, Len(quic.buffer), k)]
    /\ UNCHANGED QuicUnchanged

\* client_recv.read returns None; an empty buffer returns Ok at once
QuicReadClientEof ==
    /\ quic.pc = "read_client"
    /\ Len(quic.buffer) = Len(quic.client_sent)
    /\ quic' = [quic EXCEPT !.pc = IF quic.buffer = <<>> THEN "done_empty" ELSE "connect"]
    /\ UNCHANGED QuicUnchanged

\* connect_quic_upstream
QuicConnect ==
    /\ quic.pc = "connect"
    /\ quic' = [quic EXCEPT !.pc = "open_bi", !.up_connected = TRUE]
    /\ UNCHANGED QuicUnchanged

\* connection.open_bi
QuicOpenBi ==
    /\ quic.pc = "open_bi"
    /\ quic' = [quic EXCEPT !.pc = "write_up", !.up_opened = TRUE]
    /\ UNCHANGED QuicUnchanged

\* send.write_all(message): one write of k more bytes
QuicWriteUp(k) ==
    /\ quic.pc = "write_up"
    /\ k \in 1..(Len(quic.buffer) - Len(quic.up_in))
    /\ quic' = [quic EXCEPT !.up_in = @ \o Chunk(quic.buffer, Len(quic.up_in), k),
                            !.pc = IF Len(quic.up_in) + k = Len(quic.buffer)
                                   THEN "finish_up" ELSE "write_up"]
    /\ UNCHANGED QuicUnchanged

\* send.finish
QuicFinishUp ==
    /\ quic.pc = "finish_up"
    /\ quic' = [quic EXCEPT !.pc = "read_up", !.up_finished = TRUE]
    /\ UNCHANGED QuicUnchanged

\* recv.read returns k more bytes of the response
QuicReadUp(k) ==
    /\ quic.pc = "read_up"
    /\ k \in 1..(Len(quic.up_out) - Len(quic.response))
    /\ quic' = [quic EXCEPT !.response = @ \o Chunk(quic.up_out, Len(quic.response), k),
                            !.up_reads = @ + 1]
    /\ UNCHANGED QuicUnchanged

\* recv.read returns None: forward_quic_dns returns the response
QuicReadUpEof ==
    /\ quic.pc = "read_up"
    /\ Len(quic.response) = Len(quic.up_out)
    /\ quic' = [quic EXCEPT !.pc = IF quic.response = <<>> THEN "finish_client"
                                   ELSE "write_client",
                            !.up_reads = @ + 1]
    /\ UNCHANGED QuicUnchanged

\* client_send.write_all(&response): one write of k more bytes
QuicWriteClient(k) ==
    /\ quic.pc = "write_client"
    /\ k \in 1..(Len(quic.response) - Len(quic.client_in))
    /\ quic' = [quic EXCEPT !.client_in = @ \o Chunk(quic.response, Len(quic.client_in), k),
                            !.pc = IF Len(quic.client_in) + k = Len(quic.response)
                                   THEN "finish_client" ELSE "write_client"]
    /\ UNCHANGED QuicUnchanged

\* client_send.finish, then Ok(())
QuicFinishClient ==
    /\ quic.pc = "finish_client"
    /\ quic' = [quic EXCEPT !.pc = "done_ok", !.client_finished = TRUE]
    /\ UNCHANGED QuicUnchanged

\* the error a failing step is mapped to
QuicErrorAt(pc) ==
    IF pc \in {"read_client", "write_client", "finish_client"} THEN "Protocol"
    ELSE IF pc = "connect" THEN "ConnectionFailed"
    ELSE "RequestFailed"

\* any step fails: the mapped error is returned
QuicFail ==
    /\ quic.pc \in {"read_client", "connect", "open_bi", "write_up", "finish_up",
                    "read_up", "write_client", "finish_client"}
    /\ quic' = [quic EXCEPT !.pc = "done_err", !.err = QuicErrorAt(quic.pc),
                            !.up_reads = IF quic.pc = "read_up" THEN @ + 1 ELSE @]
    /\ UNCHANGED QuicUnchanged

NextQuic ==
    \/ \E k \in 1..MaxMsg : QuicReadClient(k)
    \/ QuicReadClientEof
    \/ QuicConnect
    \/ QuicOpenBi
    \/ \E k \in 1..MaxMsg : QuicWriteUp(k)
    \/ QuicFinishUp
    \/ \E k \in 1..MaxMsg : QuicReadUp(k)
    \/ QuicReadUpEof
    \/ \E k \in 1..MaxMsg : QuicWriteClient(k)
    \/ QuicFinishClient
    \/ QuicFail

(***************************************************************************)
(* DoQServer::handle_connection: one connection carrying one bidi stream   *)
(***************************************************************************)
DoqUnchanged ==
    <<config, sni_map, rw, completed, ncalls, nmatched, metrics, http, dot, quic, doh, doh3, libVars>>

MaxStreams == 2

\* connection.accept_bi returns the next stream of the client, which sends m on
\* it; the upstream will answer r
DoqAcceptBi(m, r) ==
    /\ doq.pc = "accept_bi"
    /\ doq.streams < MaxStreams
    /\ doq' = [IdleDoq EXCEPT !.pc = "read_client", !.streams = doq.streams + 1,
                              !.client_sent = m, !.up_out = r]
    /\ UNCHANGED DoqUnchanged

\* connection.accept_bi returns an error: the loop breaks and Ok(()) is returned
DoqAcceptClosed ==
    /\ doq.pc = "accept_bi"
    /\ doq' = [doq EXCEPT !.pc = "done_ok"]
    /\ UNCHANGED DoqUnchanged

\* the one recv.read_buf returns the first k bytes the client sent
DoqReadClient(k) ==
    /\ doq.pc = "read_client"
    /\ k \in 1..Len(doq.client_sent)
    /\ doq' = [doq EXCEPT !.buffer = Chunk(doq.client_sent, 0, k), !.pc = "connect"]
    /\ UNCHANGED DoqUnchanged

\* the one recv.read_buf returns nothing: the loop continues
DoqReadClientEmpty ==
    /\ doq.pc = "read_client"
    /\ doq.client_sent = <<>>
    /\ doq' = [doq EXCEPT !.pc = "accept_bi"]
    /\ UNCHANGED DoqUnchanged

\* Self::connect_upstream
DoqConnect ==
    /\ doq.pc = "connect"
    /\ doq' = [doq EXCEPT !.pc = "open_bi", !.up_connected = TRUE]
    /\ UNCHANGED DoqUnchanged

\* upstream_conn.open_bi
DoqOpenBi ==
    /\ doq.pc = "open_bi"
    /\ doq' = [doq EXCEPT !.pc = "write_up", !.up_opened = TRUE]
    /\ UNCHANGED DoqUnchanged

\* up_send.write_all(&buffer): one write of k more bytes
DoqWriteUp(k) ==
    /\ doq.pc = "write_up"
    /\ k \in 1..(Len(doq.buffer) - Len(doq.up_in))
    /\ doq' = [doq EXCEPT !.up_in = @ \o Chunk(doq.buffer, Len(doq.up_in), k),
                          !.pc = IF Len(doq.up_in) + k = Len(doq.buffer)
                                 THEN "finish_up" ELSE "write_up"]
    /\ UNCHANGED DoqUnchanged

\* up_send.finish
DoqFinishUp ==
    /\ doq.pc = "finish_up"
    /\ doq' = [doq EXCEPT !.pc = "read_up", !.up_finished = TRUE]
    /\ UNCHANGED DoqUnchanged

\* the one up_recv.read_buf returns the first k bytes of the response
DoqReadUp(k) ==
    /\ doq.pc = "read_up"
    /\ k \in 1..Len(doq.up_out)
    /\ doq' = [doq EXCEPT !.response = Chunk(doq.up_out, 0, k),
                          !.up_reads = @ + 1,
                          !.pc = "write_client"]
    /\ UNCHANGED DoqUnchanged

\* the one up_recv.read_buf returns nothing: write_all of nothing, then finish
DoqReadUpEmpty ==
    /\ doq.pc = "read_up"
    /\ doq.up_out = <<>>
    /\ doq' = [doq EXCEPT !.up_reads = @ + 1, !.pc = "finish_client"]
    /\ UNCHANGED DoqUnchanged

\* send.write_all(&response): one write of k more bytes
DoqWriteClient(k) ==
    /\ doq.pc = "write_client"
    /\ k \in 1..(Len(doq.response) - Len(doq.client_in))
    /\ doq' = [doq EXCEPT !.client_in = @ \o Chunk(doq.response, Len(doq.client_in), k),
                          !.pc = IF Len(doq.client_in) + k = Len(doq.response)
                                 THEN "finish_client" ELSE "write_client"]
    /\ UNCHANGED DoqUnchanged

\* send.finish, then back to accept_bi
DoqFinishClient ==
    /\ doq.pc = "finish_client"
    /\ doq' = [doq EXCEPT !.pc = "accept_bi", !.client_finished = TRUE]
    /\ UNCHANGED DoqUnchanged

\* any step fails: ? returns the error from handle_connection
DoqFail ==
    /\ doq.pc \in {"read_client", "connect", "open_bi", "write_up", "finish_up",
                   "read_up", "write_client", "finish_client"}
    /\ doq' = [doq EXCEPT !.pc = "done_err", !.stream_failed = TRUE,
                          !.up_reads = IF doq.pc = "read_up" THEN @ + 1 ELSE @]
    /\ UNCHANGED DoqUnchanged

NextDoq ==
    \/ \E m \in Msgs, r \in Msgs : DoqAcceptBi(m, r)
    \/ DoqAcceptClosed
    \/ \E k \in 1..MaxMsg : DoqReadClient(k)
    \/ DoqReadClientEmpty
    \/ DoqConnect
    \/ DoqOpenBi
    \/ \E k \in 1..MaxMsg : DoqWriteUp(k)
    \/ DoqFinishUp
    \/ \E k \in 1..MaxMsg : DoqReadUp(k)
    \/ DoqReadUpEmpty
    \/ \E k \in 1..MaxMsg : DoqWriteClient(k)
    \/ DoqFinishClient
    \/ DoqFail

(***************************************************************************)
(* SpecTunnel: one DoT connection, one forwarded QUIC stream or one DoQ    *)
(* connection, for every client message and every upstream response within *)
(* the bounds                                                              *)
(***************************************************************************)
InitTunnel ==
    /\ config \in HttpConfigs
    /\ sni_map = <<>>
    /\ rw = [c \in Callers |-> IdleCall]
    /\ completed = {}
    /\ ncalls = 0
    /\ nmatched = 0
    /\ metrics = NewMetrics
    /\ http = IdleHttp
    /\ \E m \in Msgs, r \in Msgs :
          \/ /\ dot = [IdleDot EXCEPT !.pc = "handshake", !.client_sent = m, !.up_out = r]
             /\ quic = IdleQuic
             /\ doq = IdleDoq
          \/ /\ dot = IdleDot
             /\ quic = [IdleQuic EXCEPT !.pc = "read_client", !.client_sent = m, !.up_out = r]
             /\ doq = IdleDoq
          \/ /\ dot = IdleDot
             /\ quic = IdleQuic
             /\ doq = [IdleDoq EXCEPT !.pc = "accept_bi"]
    /\ doh = IdleDoh
    /\ doh3 = IdleDoh3
    /\ InitLib

NextTunnel == NextDot \/ NextQuic \/ NextDoq

SpecTunnel == InitTunnel /\ [][NextTunnel]_vars

(***************************************************************************)
(* utils/backoff.rs: exponential_backoff and BackoffCounter                *)
(***************************************************************************)
MaxBackoffCalls == 13

Min(a, b) == IF a <= b THEN a ELSE b

\* exponential_backoff: base * 2^min(attempt, 10), capped at max; the
\* saturating operations are exact for every value used here, which all stay
\* far below 2^64
exponential_backoff(attempt, base_delay_ms, max_delay_ms) ==
    Min(base_delay_ms * 2^Min(attempt, 10), max_delay_ms)

\* next_delay never resetting the counter
NextDelayNoReset(b, base_delay_ms, max_delay_ms) ==
    LET attempt == b.counter
    IN  [b EXCEPT
            !.counter = attempt + 1,
            !.calls = b.calls + 1,
            !.last = [base_delay_ms |-> base_delay_ms, max_delay_ms |-> max_delay_ms,
                      delay |-> exponential_backoff(attempt, base_delay_ms, max_delay_ms)]]

\* BackoffCounter::next_delay by the counter's only caller: fetch_add(1)
\* returns the attempt, the delay is computed from it, and the counter is
\* stored back to 0 when the attempt was 10 or more (the u32 counter never
\* passes 11, so the wrapping add never wraps)
NextDelay(b, base_delay_ms, max_delay_ms) ==
    LET attempt == b.counter
        added == attempt + 1
    IN  [b EXCEPT
            !.counter = IF attempt >= 10 THEN 0 ELSE added,
            !.calls = b.calls + 1,
            !.last = [base_delay_ms |-> base_delay_ms, max_delay_ms |-> max_delay_ms,
                      delay |-> exponential_backoff(attempt, base_delay_ms, max_delay_ms)]]

\* the arguments next_delay is called with
BaseDelays == {1, 3, 100}
MaxDelays == {100, 1000, 5000}

\* one call of next_delay
BackoffNextDelay(base_delay_ms, max_delay_ms) ==
    /\ backoff.calls < MaxBackoffCalls
    /\ backoff' = NextDelay(backoff, base_delay_ms, max_delay_ms)
    /\ UNCHANGED <<config, sni_map, rw, completed, ncalls, nmatched, metrics, http, dot, quic,
                   doq, doh, doh3, listener, pool, certs, mt, app>>

\* the configuration the library's parts are exercised under
LibConfig == CHOOSE c \in ServerConfigs : TRUE

\* everything but the library's parts, at rest
InitRest ==
    /\ config = LibConfig
    /\ sni_map = <<>>
    /\ rw = [c \in Callers |-> IdleCall]
    /\ completed = {}
    /\ ncalls = 0
    /\ nmatched = 0
    /\ InitIo

InitBackoff == InitRest

NextBackoff ==
    \E base_delay_ms \in BaseDelays, max_delay_ms \in MaxDelays :
        BackoffNextDelay(base_delay_ms, max_delay_ms)

SpecBackoff == InitBackoff /\ [][NextBackoff]_vars

(***************************************************************************)
(* utils/backoff.rs: next_delay(100, 5000) by concurrent callers           *)
(***************************************************************************)
\* what a step of a concurrent next_delay leaves alone
BkUnchanged ==
    <<config, sni_map, rw, completed, ncalls, nmatched, metrics, http, dot, quic, doq, doh, doh3,
      listener, pool, certs, mt, app>>

\* counter.fetch_add(1): the caller takes the counter's value as its attempt
\* (the u32 counter stays far below its wrap)
BkFetchAdd(t) ==
    /\ backoff.thr[t].pc = "idle"
    /\ backoff' = [backoff EXCEPT !.counter = @ + 1,
                                  !.thr[t] = [pc |-> "fetched", attempt |-> backoff.counter,
                                              delay |-> 0]]
    /\ UNCHANGED BkUnchanged

\* the delay is computed and returned without the counter ever being stored
\* back to 0
BkFinishNoReset(t) ==
    /\ backoff.thr[t].pc = "fetched"
    /\ backoff' = [backoff EXCEPT
            !.thr[t].pc = "idle",
            !.thr[t].delay = exponential_backoff(backoff.thr[t].attempt, 100, 5000)]
    /\ UNCHANGED BkUnchanged

\* the delay is computed, counter.store(0) runs when the attempt was 10 or
\* more, and the delay is returned
BkFinish(t) ==
    /\ backoff.thr[t].pc = "fetched"
    /\ backoff' = [backoff EXCEPT
            !.counter = IF backoff.thr[t].attempt >= 10 THEN 0 ELSE @,
            !.thr[t].pc = "idle",
            !.thr[t].delay = exponential_backoff(backoff.thr[t].attempt, 100, 5000)]
    /\ UNCHANGED BkUnchanged

InitBackoffConc == InitRest

NextBackoffConc ==
    \E t \in BkThreads :
        \/ BkFetchAdd(t)
        \/ BkFinish(t)

SpecBackoffConc == InitBackoffConc /\ [][NextBackoffConc]_vars

(***************************************************************************)
(* readers/dot.rs and readers/doh.rs: the accept loops of start()          *)
(***************************************************************************)
MaxAcceptErrors == 12
MaxAccepted == 2

\* what a listener's step leaves alone
ListenUnchanged ==
    <<config, sni_map, rw, completed, ncalls, nmatched, metrics, http, dot, quic, doq, doh, doh3,
      pool, certs, mt, app>>

\* an accept loop that starts its back-off over when accept() succeeds
ListenAcceptResets(f) ==
    /\ listener[f].pc = "accept"
    /\ listener[f].accepted < MaxAccepted
    /\ listener' = [listener EXCEPT ![f].accepted = @ + 1]
    /\ backoff' = [backoff EXCEPT !.counter = 0]
    /\ UNCHANGED ListenUnchanged

\* listener.accept() returns a connection: its task is spawned and the loop
\* calls accept again
ListenAccept(f) ==
    /\ listener[f].pc = "accept"
    /\ listener[f].accepted < MaxAccepted
    /\ listener' = [listener EXCEPT ![f].accepted = @ + 1]
    /\ UNCHANGED <<backoff, ListenUnchanged>>

\* DoT: listener.accept() returns an error: it is logged and the loop sleeps
\* for backoff.next_delay(100, 5000)
DotListenError ==
    /\ listener["dot"].pc = "accept"
    /\ listener["dot"].errors < MaxAcceptErrors
    /\ backoff' = NextDelay(backoff, 100, 5000)
    /\ listener' = [listener EXCEPT !["dot"].errors = @ + 1,
                                    !["dot"].pc = "sleep",
                                    !["dot"].delay = backoff'.last.delay]
    /\ UNCHANGED ListenUnchanged

\* DoT: the sleep ends and the loop calls accept again
DotListenWake ==
    /\ listener["dot"].pc = "sleep"
    /\ listener' = [listener EXCEPT !["dot"].sleeps = @ + 1, !["dot"].pc = "accept"]
    /\ UNCHANGED <<backoff, ListenUnchanged>>

\* DoH: listener.accept() returns an error: it is logged and the loop calls
\* accept again at once
DohListenError ==
    /\ listener["doh"].pc = "accept"
    /\ listener["doh"].errors < MaxAcceptErrors
    /\ listener' = [listener EXCEPT !["doh"].errors = @ + 1]
    /\ UNCHANGED <<backoff, ListenUnchanged>>

InitListen == InitRest

NextListen ==
    \/ \E f \in TcpFronts : ListenAccept(f)
    \/ DotListenError
    \/ DotListenWake
    \/ DohListenError

SpecListen == InitListen /\ [][NextListen]_vars

(***************************************************************************)
(* upstream/pool.rs: ConnectionPool::get_client                            *)
(***************************************************************************)
MaxPoolCalls == 3

\* what a step of get_client leaves alone
PoolUnchanged ==
    <<config, sni_map, rw, completed, ncalls, nmatched, metrics, http, dot, quic, doq, doh, doh3,
      listener, backoff, certs, mt, app>>

\* get_client(sni) is called
PoolGetClient(t, sni) ==
    /\ pool.thr[t].pc = "idle"
    /\ pool.ncalls < MaxPoolCalls
    /\ pool' = [pool EXCEPT !.thr[t] = [pc |-> "fast", sni |-> sni, client_arc |-> 0],
                            !.ncalls = @ + 1]
    /\ UNCHANGED PoolUnchanged

\* the fast path: clients.get(sni) returns the retained handle, or nothing
PoolFastPath(t) ==
    LET sni == pool.thr[t].sni IN
    /\ pool.thr[t].pc = "fast"
    /\ IF pool.clients[sni] # 0
       THEN pool' = [pool EXCEPT !.thr[t].pc = "idle",
                                 !.returned = @ \cup {[sni |-> sni, client |-> pool.clients[sni]]}]
       ELSE pool' = [pool EXCEPT !.thr[t].pc = "create"]
    /\ UNCHANGED PoolUnchanged

\* the slow path: create_client() and Arc::new build a candidate
PoolCreateClient(t) ==
    /\ pool.thr[t].pc = "create"
    /\ pool' = [pool EXCEPT !.created = @ + 1,
                            !.thr[t].client_arc = pool.created + 1,
                            !.thr[t].pc = "insert"]
    /\ UNCHANGED PoolUnchanged

\* the candidate put into the map with insert, whatever the map holds
PoolInsert(t) ==
    /\ pool.thr[t].pc = "insert"
    /\ pool' = [pool EXCEPT !.clients[pool.thr[t].sni] = pool.thr[t].client_arc,
                            !.thr[t].pc = "get"]
    /\ UNCHANGED PoolUnchanged

\* clients.entry(sni).or_insert_with: the candidate is retained only when the
\* map has no handle for the SNI
PoolOrInsert(t) ==
    LET sni == pool.thr[t].sni IN
    /\ pool.thr[t].pc = "insert"
    /\ pool' = [pool EXCEPT !.clients[sni] = IF @ = 0 THEN pool.thr[t].client_arc ELSE @,
                            !.thr[t].pc = "get"]
    /\ UNCHANGED PoolUnchanged

\* clients.get(sni) after the insert: the handle in the map is returned, the
\* candidate only if the map has none
PoolReturn(t) ==
    LET sni == pool.thr[t].sni
        client == IF pool.clients[sni] # 0 THEN pool.clients[sni] ELSE pool.thr[t].client_arc
    IN
    /\ pool.thr[t].pc = "get"
    /\ pool' = [pool EXCEPT !.thr[t].pc = "idle",
                            !.returned = @ \cup {[sni |-> sni, client |-> client]}]
    /\ UNCHANGED PoolUnchanged

InitPool == InitRest

NextPool ==
    \E t \in PoolThreads :
        \/ \E sni \in Snis : PoolGetClient(t, sni)
        \/ PoolFastPath(t)
        \/ PoolCreateClient(t)
        \/ PoolOrInsert(t)
        \/ PoolReturn(t)

SpecPool == InitPool /\ [][NextPool]_vars

(***************************************************************************)
(* tls_utils.rs: CertificateResolver::get_cert_for_domain                  *)
(***************************************************************************)
MaxCertCalls == 3

\* what a step of get_cert_for_domain leaves alone
CertUnchanged ==
    <<config, sni_map, rw, completed, ncalls, nmatched, metrics, http, dot, quic, doq, doh, doh3,
      listener, backoff, pool, mt, app>>

\* TlsConfig::get_cert_config: the entry of tls.certs for the domain, else
\* the default keypair, else nothing
get_cert_config(tls, domain) ==
    IF tls.certs[domain] # "none" THEN tls.certs[domain] ELSE tls.default

\* the record of a resolve that has returned
CertOutcome(t, kind, cert, lookup, io) ==
    [domain |-> certs.thr[t].domain, kind |-> kind, cert |-> cert,
     lookup |-> lookup, io |-> io]

\* get_cert_for_domain(domain) is called
CertResolve(t, domain) ==
    /\ certs.thr[t].pc = "idle"
    /\ certs.ncalls < MaxCertCalls
    /\ certs' = [certs EXCEPT !.thr[t] = [pc |-> "check", domain |-> domain, file |-> "none",
                                          cert |-> 0, lookup |-> FALSE, io |-> FALSE,
                                          result |-> "none"],
                              !.ncalls = @ + 1]
    /\ UNCHANGED CertUnchanged

\* cert_cache.get(domain): a hit returns the cached entry
CertCheckCache(t) ==
    LET domain == certs.thr[t].domain IN
    /\ certs.thr[t].pc = "check"
    /\ IF certs.cert_cache[domain] # 0
       THEN certs' = [certs EXCEPT
                !.thr[t].pc = "idle",
                !.thr[t].result = "ok",
                !.done = @ \cup {CertOutcome(t, "ok", certs.cert_cache[domain], FALSE, FALSE)}]
       ELSE certs' = [certs EXCEPT !.thr[t].pc = "lookup"]
    /\ UNCHANGED CertUnchanged

\* get_cert_config_or_err: the keypair to load, or NotConfigured
CertLookup(t) ==
    LET domain == certs.thr[t].domain
        file == get_cert_config(certs.tls, domain)
    IN
    /\ certs.thr[t].pc = "lookup"
    /\ IF file = "none"
       THEN certs' = [certs EXCEPT
                !.thr[t].pc = "idle",
                !.thr[t].lookup = TRUE,
                !.thr[t].result = "NotConfigured",
                !.nfailed[domain] = @ + 1,
                !.done = @ \cup {CertOutcome(t, "NotConfigured", 0, TRUE, FALSE)}]
       ELSE certs' = [certs EXCEPT !.thr[t].pc = "load",
                                   !.thr[t].lookup = TRUE,
                                   !.thr[t].file = file]
    /\ UNCHANGED CertUnchanged

\* load_certificate succeeds: a new CertifiedKey object
CertLoad(t) ==
    /\ certs.thr[t].pc = "load"
    /\ certs.thr[t].file = "good"
    /\ certs' = [certs EXCEPT !.loaded = @ + 1,
                              !.thr[t].cert = certs.loaded + 1,
                              !.thr[t].io = TRUE,
                              !.thr[t].pc = "insert"]
    /\ UNCHANGED CertUnchanged

\* a failed load that leaves an entry for the domain in the cache
CertLoadFailCached(t) ==
    LET domain == certs.thr[t].domain IN
    /\ certs.thr[t].pc = "load"
    /\ certs.thr[t].file = "bad"
    /\ certs' = [certs EXCEPT
            !.loaded = @ + 1,
            !.cert_cache[domain] = certs.loaded + 1,
            !.thr[t].pc = "idle",
            !.thr[t].io = TRUE,
            !.thr[t].result = "LoadFailed",
            !.nfailed[domain] = @ + 1,
            !.done = @ \cup {CertOutcome(t, "LoadFailed", 0, TRUE, TRUE)}]
    /\ UNCHANGED CertUnchanged

\* load_certificate fails (a file cannot be read, or is malformed): the
\* error is returned as LoadFailed
CertLoadFail(t) ==
    LET domain == certs.thr[t].domain IN
    /\ certs.thr[t].pc = "load"
    /\ certs.thr[t].file = "bad"
    /\ certs' = [certs EXCEPT
            !.thr[t].pc = "idle",
            !.thr[t].io = TRUE,
            !.thr[t].result = "LoadFailed",
            !.nfailed[domain] = @ + 1,
            !.done = @ \cup {CertOutcome(t, "LoadFailed", 0, TRUE, TRUE)}]
    /\ UNCHANGED CertUnchanged

\* cert_cache.insert(domain, cert) puts the loaded key into the cache,
\* whatever the cache holds, and the loaded key is returned
CertInsert(t) ==
    LET domain == certs.thr[t].domain IN
    /\ certs.thr[t].pc = "insert"
    /\ certs' = [certs EXCEPT
            !.cert_cache[domain] = certs.thr[t].cert,
            !.thr[t].pc = "idle",
            !.thr[t].result = "ok",
            !.done = @ \cup {CertOutcome(t, "ok", certs.thr[t].cert, TRUE, TRUE)}]
    /\ UNCHANGED CertUnchanged

InitCerts ==
    /\ config = LibConfig
    /\ sni_map = <<>>
    /\ rw = [c \in Callers |-> IdleCall]
    /\ completed = {}
    /\ ncalls = 0
    /\ nmatched = 0
    /\ metrics = NewMetrics
    /\ http = IdleHttp
    /\ dot = IdleDot
    /\ quic = IdleQuic
    /\ doq = IdleDoq
    /\ doh = IdleDoh
    /\ doh3 = IdleDoh3
    /\ listener = [f \in TcpFronts |-> IdleListener]
    /\ backoff = NewBackoff
    /\ pool = NewPool
    /\ \E tls \in TlsConfigs : certs = NewResolver(tls)
    /\ mt = NewMt
    /\ app = NewApp(DefaultEnabled)

NextCerts ==
    \E t \in CertThreads :
        \/ \E domain \in Domains : CertResolve(t, domain)
        \/ CertCheckCache(t)
        \/ CertLookup(t)
        \/ CertLoad(t)
        \/ CertLoadFail(t)
        \/ CertInsert(t)

SpecCerts == InitCerts /\ [][NextCerts]_vars

(***************************************************************************)
(* metrics.rs: record_request by concurrent callers, snapshot, export      *)
(***************************************************************************)
MaxMtCalls == 2
MaxMarks == 1
MaxSnapshots == 2
MaxTime == 3
TicksPerSecond == 2

\* the arguments record_request is called with
RequestArgs ==
    {[success |-> TRUE, bytes_received_val |-> 1, bytes_sent_val |-> 2, duration_ms |-> 2],
     [success |-> FALSE, bytes_received_val |-> 2, bytes_sent_val |-> 0, duration_ms |-> 4]}

\* what a step on the metrics leaves alone
MtUnchanged ==
    <<config, sni_map, rw, completed, ncalls, nmatched, http, dot, quic, doq, doh, doh3,
      listener, backoff, pool, certs, app>>

\* record_request(success, bytes_received_val, bytes_sent_val, duration) is
\* called
MtRecordRequest(t, a) ==
    /\ mt.thr[t].pc = "idle"
    /\ mt.ncalls < MaxMtCalls
    /\ mt' = [mt EXCEPT !.thr[t] = [pc |-> "total", success |-> a.success,
                                    bytes_received_val |-> a.bytes_received_val,
                                    bytes_sent_val |-> a.bytes_sent_val,
                                    duration_ms |-> a.duration_ms],
                        !.ncalls = @ + 1]
    /\ UNCHANGED <<metrics, MtUnchanged>>

\* total_requests.inc()
MtIncTotal(t) ==
    /\ mt.thr[t].pc = "total"
    /\ metrics' = [metrics EXCEPT !.total_requests = @ + 1]
    /\ mt' = [mt EXCEPT !.thr[t].pc = "outcome"]
    /\ UNCHANGED MtUnchanged

\* the outcome counted as a success whatever the success argument
MtIncOutcomeAlwaysSuccess(t) ==
    /\ mt.thr[t].pc = "outcome"
    /\ metrics' = [metrics EXCEPT !.successful_requests = @ + 1]
    /\ mt' = [mt EXCEPT !.thr[t].pc = "bytes_received"]
    /\ UNCHANGED MtUnchanged

\* the outcome counted both as a success and as a failure
MtIncOutcomeBoth(t) ==
    /\ mt.thr[t].pc = "outcome"
    /\ metrics' = [metrics EXCEPT !.successful_requests = @ + 1, !.failed_requests = @ + 1]
    /\ mt' = [mt EXCEPT !.thr[t].pc = "bytes_received"]
    /\ UNCHANGED MtUnchanged

\* successful_requests.inc() or failed_requests.inc()
MtIncOutcome(t) ==
    /\ mt.thr[t].pc = "outcome"
    /\ metrics' = IF mt.thr[t].success
                  THEN [metrics EXCEPT !.successful_requests = @ + 1]
                  ELSE [metrics EXCEPT !.failed_requests = @ + 1]
    /\ mt' = [mt EXCEPT !.thr[t].pc = "bytes_received"]
    /\ UNCHANGED MtUnchanged

\* bytes_received.inc_by(bytes_received_val)
MtIncBytesReceived(t) ==
    /\ mt.thr[t].pc = "bytes_received"
    /\ metrics' = [metrics EXCEPT !.bytes_received = @ + mt.thr[t].bytes_received_val]
    /\ mt' = [mt EXCEPT !.thr[t].pc = "bytes_sent"]
    /\ UNCHANGED MtUnchanged

\* bytes_sent.inc_by(bytes_sent_val)
MtIncBytesSent(t) ==
    /\ mt.thr[t].pc = "bytes_sent"
    /\ metrics' = [metrics EXCEPT !.bytes_sent = @ + mt.thr[t].bytes_sent_val]
    /\ mt' = [mt EXCEPT !.thr[t].pc = "observe"]
    /\ UNCHANGED MtUnchanged

\* processing_time.observe(duration), and record_request returns
MtObserve(t) ==
    LET c == mt.thr[t] IN
    /\ c.pc = "observe"
    /\ mt' = [mt EXCEPT
            !.hist = [sum_ms |-> @.sum_ms + c.duration_ms, count |-> @.count + 1],
            !.thr[t].pc = "idle",
            !.done = [n |-> @.n + 1,
                      success |-> @.success + (IF c.success THEN 1 ELSE 0),
                      failed |-> @.failed + (IF c.success THEN 0 ELSE 1),
                      bytes_received |-> @.bytes_received + c.bytes_received_val,
                      bytes_sent |-> @.bytes_sent + c.bytes_sent_val]]
    /\ UNCHANGED <<metrics, MtUnchanged>>

\* record_sni_rewrite()
MtRecordSniRewrite ==
    /\ mt.nsni < MaxMarks
    /\ metrics' = RecordSniRewrite(metrics)
    /\ mt' = [mt EXCEPT !.nsni = @ + 1]
    /\ UNCHANGED MtUnchanged

\* record_upstream_error()
MtRecordUpstreamError ==
    /\ mt.nerr < MaxMarks
    /\ metrics' = RecordUpstreamError(metrics)
    /\ mt' = [mt EXCEPT !.nerr = @ + 1]
    /\ UNCHANGED MtUnchanged

\* export_prometheus(): the registry is gathered and encoded
MtExport ==
    /\ mt.nexport < MaxMarks
    /\ mt' = [mt EXCEPT !.nexport = @ + 1]
    /\ UNCHANGED <<metrics, MtUnchanged>>

\* time passes
MtTick ==
    /\ mt.now < MaxTime
    /\ mt' = [mt EXCEPT !.now = @ + 1]
    /\ UNCHANGED <<metrics, MtUnchanged>>

\* snapshot() is called
MtSnapshot(s) ==
    /\ mt.snap[s].pc = "idle"
    /\ mt.nsnap[s] < MaxSnapshots
    /\ mt' = [mt EXCEPT !.snap[s] = [IdleSnap EXCEPT !.pc = "check", !.floor = mt.reported],
                        !.nsnap[s] = @ + 1]
    /\ UNCHANGED <<metrics, MtUnchanged>>

\* snapshot() returns the snapshot r, memoized or generated
SnapReturn(s, kind, r) ==
    [mt EXCEPT !.snap[s] = [pc |-> "idle", kind |-> kind, snapshot |-> ZeroSnapshot,
                            result |-> r, floor |-> mt.snap[s].floor],
               !.reported = IF r.total_requests > @ THEN r.total_requests ELSE @]

\* a check that returns the memoized snapshot whatever its age
MtSnapshotCheckNoExpiry(s) ==
    /\ mt.snap[s].pc = "check"
    /\ IF mt.cached_snapshot.some
       THEN mt' = SnapReturn(s, "cached", mt.cached_snapshot.snapshot)
       ELSE mt' = [mt EXCEPT !.snap[s].pc = "generate"]
    /\ UNCHANGED <<metrics, MtUnchanged>>

\* under the read lock: the memoized snapshot is returned if there is one and
\* its timestamp.elapsed() is less than 1 second
MtSnapshotCheck(s) ==
    /\ mt.snap[s].pc = "check"
    /\ IF /\ mt.cached_snapshot.some
          /\ mt.now - mt.cached_snapshot.timestamp < 1 * TicksPerSecond
       THEN mt' = SnapReturn(s, "cached", mt.cached_snapshot.snapshot)
       ELSE mt' = [mt EXCEPT !.snap[s].pc = "generate"]
    /\ UNCHANGED <<metrics, MtUnchanged>>

\* generate_snapshot(): total_requests.get()
MtSnapshotReadTotal(s) ==
    /\ mt.snap[s].pc = "generate"
    /\ mt' = [mt EXCEPT !.snap[s].pc = "read_successful",
                        !.snap[s].snapshot.total_requests = metrics.total_requests]
    /\ UNCHANGED <<metrics, MtUnchanged>>

\* generate_snapshot(): successful_requests.get()
MtSnapshotReadSuccessful(s) ==
    /\ mt.snap[s].pc = "read_successful"
    /\ mt' = [mt EXCEPT !.snap[s].pc = "read_rest",
                        !.snap[s].snapshot.successful_requests = metrics.successful_requests]
    /\ UNCHANGED <<metrics, MtUnchanged>>

\* generate_snapshot(): failed_requests.get(), the histogram and the other
\* counters are read, and the snapshot is built from what was read
MtSnapshotGenerate(s) ==
    /\ mt.snap[s].pc = "read_rest"
    /\ mt' = [mt EXCEPT
            !.snap[s].pc = "store",
            !.snap[s].snapshot =
                generate_snapshot(
                    [metrics EXCEPT
                        !.total_requests = mt.snap[s].snapshot.total_requests,
                        !.successful_requests = mt.snap[s].snapshot.successful_requests],
                    mt.hist)]
    /\ UNCHANGED <<metrics, MtUnchanged>>

\* a store that also sets the counters back to zero
MtSnapshotStoreReset(s) ==
    /\ mt.snap[s].pc = "store"
    /\ mt' = [SnapReturn(s, "generated", mt.snap[s].snapshot) EXCEPT
            !.cached_snapshot = [some |-> TRUE, snapshot |-> mt.snap[s].snapshot,
                                 timestamp |-> mt.now]]
    /\ metrics' = NewMetrics
    /\ UNCHANGED MtUnchanged

\* under the write lock: the snapshot is memoized with Instant::now() and
\* returned
MtSnapshotStore(s) ==
    /\ mt.snap[s].pc = "store"
    /\ mt' = [SnapReturn(s, "generated", mt.snap[s].snapshot) EXCEPT
            !.cached_snapshot = [some |-> TRUE, snapshot |-> mt.snap[s].snapshot,
                                 timestamp |-> mt.now]]
    /\ UNCHANGED <<metrics, MtUnchanged>>

\* snapshot() step by step, by the caller s
SnapshotSteps(s) ==
    \/ MtSnapshot(s)
    \/ MtSnapshotCheck(s)
    \/ MtSnapshotReadTotal(s)
    \/ MtSnapshotReadSuccessful(s)
    \/ MtSnapshotGenerate(s)
    \/ MtSnapshotStore(s)

\* record_request step by step, by the caller t
RecordSteps(t) ==
    \/ \E a \in RequestArgs : MtRecordRequest(t, a)
    \/ MtIncTotal(t)
    \/ MtIncOutcome(t)
    \/ MtIncBytesReceived(t)
    \/ MtIncBytesSent(t)
    \/ MtObserve(t)

InitRecord == InitRest

\* concurrent callers of record_request, record_sni_rewrite and
\* record_upstream_error
NextRecord ==
    \/ \E t \in MtThreads : RecordSteps(t)
    \/ MtRecordSniRewrite
    \/ MtRecordUpstreamError

SpecRecord == InitRecord /\ [][NextRecord]_vars

InitMetrics == InitRest

\* every operation of the metrics sink, with one caller of record_request
\* and one of snapshot, while time passes
NextMetrics ==
    \/ RecordSteps("m1")
    \/ MtRecordSniRewrite
    \/ MtRecordUpstreamError
    \/ MtExport
    \/ MtTick
    \/ SnapshotSteps("s1")

SpecMetrics == InitMetrics /\ [][NextMetrics]_vars

InitScrape == InitRest

\* two callers of snapshot() within one second, while one caller of
\* record_request runs
NextScrape ==
    \/ RecordSteps("m1")
    \/ \E s \in SnapThreads : SnapshotSteps(s)

SpecScrape == InitScrape /\ [][NextScrape]_vars

(***************************************************************************)
(* main.rs and app.rs: the supervisor, the server tasks it spawns and a    *)
(* connection task spawned by a server's accept loop                       *)
(***************************************************************************)
\* what a step of the supervisor or of a server task leaves alone
AppUnchanged ==
    <<config, sni_map, rw, completed, ncalls, nmatched, http, dot, quic, doq, doh, doh3,
      listener, backoff, pool, certs, mt>>

\* the states in which a task has finished
Finished == {"returned", "failed", "aborted"}

\* a server's start(): Ok at once when the server is disabled; else the error
\* of the failure point reached, or the accept loop
server_start(enabled, outcome) ==
    IF ~enabled THEN "returned"
    ELSE IF outcome = "ok" THEN "listening" ELSE "failed"

\* main: App::new, and App::start is called
AppStart ==
    /\ app.pc = "new"
    /\ app.direct.server = "none"
    /\ app' = [app EXCEPT !.pc = "start", !.next = 1]
    /\ UNCHANGED <<metrics, AppUnchanged>>

\* a start_*_server that spawns the task whether the server is enabled or not
AppStartServerAlways ==
    /\ app.pc = "start"
    /\ app.next <= Len(StartOrder)
    /\ LET s == StartOrder[app.next] IN
         app' = [app EXCEPT !.task[s] = "spawned",
                            !.handles = Append(@, s),
                            !.next = @ + 1]
    /\ UNCHANGED <<metrics, AppUnchanged>>

\* App::start calls the next start_*_server: nothing for a disabled server,
\* else the task is spawned and its handle pushed
AppStartServer ==
    /\ app.pc = "start"
    /\ app.next <= Len(StartOrder)
    /\ LET s == StartOrder[app.next] IN
         IF ~app.enabled[s]
         THEN app' = [app EXCEPT !.next = @ + 1]
         ELSE app' = [app EXCEPT !.task[s] = "spawned",
                                 !.handles = Append(@, s),
                                 !.next = @ + 1]
    /\ UNCHANGED <<metrics, AppUnchanged>>

\* App::start returns Ok; main awaits ctrl_c
AppStartReturn ==
    /\ app.pc = "start"
    /\ app.next > Len(StartOrder)
    /\ app' = [app EXCEPT !.pc = "running", !.start_result = "ok"]
    /\ UNCHANGED <<metrics, AppUnchanged>>

\* a task whose error takes the other server tasks down with it
TaskSetupFatal(s) ==
    /\ app.task[s] = "spawned"
    /\ \E outcome \in {"ok"} \cup FailurePoints(s) :
         LET r == server_start(app.enabled[s], outcome) IN
           app' = [app EXCEPT
               !.task = [x \in Servers |->
                            IF x = s THEN r
                            ELSE IF r = "failed" /\ @[x] \notin Finished \cup {"none"}
                                 THEN "aborted" ELSE @[x]],
               !.bound = IF r = "listening" THEN @ \cup {s} ELSE @,
               !.logged = IF r = "failed" THEN @ \cup {s} ELSE @]
    /\ UNCHANGED <<metrics, AppUnchanged>>

\* the spawned task runs the server's start() up to its accept loop: the
\* listener is bound, or the error is logged by the task, which ends
TaskSetup(s) ==
    /\ app.task[s] = "spawned"
    /\ \E outcome \in {"ok"} \cup FailurePoints(s) :
         LET r == server_start(app.enabled[s], outcome) IN
           app' = [app EXCEPT
               !.task[s] = r,
               !.bound = IF r = "listening" THEN @ \cup {s} ELSE @,
               !.logged = IF r = "failed" THEN @ \cup {s} ELSE @]
    /\ UNCHANGED <<metrics, AppUnchanged>>

\* a server's start() is called directly, in a process where no supervisor
\* has been started
DirectStart(s) ==
    /\ app.pc = "new"
    /\ app.direct.server = "none"
    /\ \E outcome \in {"ok"} \cup FailurePoints(s) :
         LET r == server_start(app.enabled[s], outcome) IN
           app' = [app EXCEPT
               !.direct = [server |-> s, result |-> r],
               !.bound = IF r = "listening" THEN @ \cup {s} ELSE @]
    /\ UNCHANGED <<metrics, AppUnchanged>>

\* the accept loop: accept() fails and the task sleeps for the back-off delay
TaskAcceptError(s) ==
    /\ s \in SleepingServers
    /\ app.task[s] = "listening"
    /\ app' = [app EXCEPT !.task[s] = "sleeping"]
    /\ UNCHANGED <<metrics, AppUnchanged>>

\* the sleep ends
TaskWake(s) ==
    /\ app.task[s] = "sleeping"
    /\ app' = [app EXCEPT !.task[s] = "listening"]
    /\ UNCHANGED <<metrics, AppUnchanged>>

\* the accept loop: accept() succeeds and the connection task is spawned, its
\* handle dropped
TaskAccept(s) ==
    /\ s \in ConnServers
    /\ app.task[s] = "listening"
    /\ app.conn.state = "none"
    /\ app' = [app EXCEPT !.conn = [state |-> "running", owner |-> s]]
    /\ UNCHANGED <<metrics, AppUnchanged>>

\* the connection task runs to its end and records the request
ConnFinish(success) ==
    /\ app.conn.state = "running"
    /\ app' = [app EXCEPT !.conn.state = "done",
                          !.late = @ \/ app.pc = "waited"]
    /\ metrics' = RecordRequest(metrics, success, 1, 1)
    /\ UNCHANGED AppUnchanged

\* main: ctrl_c() completes and wait_for_shutdown is called
AppCtrlC ==
    /\ app.pc = "running"
    /\ app' = [app EXCEPT !.pc = "shutdown"]
    /\ UNCHANGED <<metrics, AppUnchanged>>

\* a wait_for_shutdown that drops the handle without aborting the task
AppAbortNextDetach ==
    /\ app.pc = "shutdown"
    /\ app.handles # <<>>
    /\ app' = [app EXCEPT !.handles = Tail(@)]
    /\ UNCHANGED <<metrics, AppUnchanged>>

\* a wait_for_shutdown that also aborts the connection task
AppAbortNextWithConn ==
    /\ app.pc = "shutdown"
    /\ app.handles # <<>>
    /\ LET s == Head(app.handles) IN
         app' = [app EXCEPT
             !.handles = Tail(@),
             !.task[s] = IF @ \in Finished THEN @ ELSE "aborting",
             !.conn.state = IF @ = "running" THEN "cancelled" ELSE @]
    /\ UNCHANGED <<metrics, AppUnchanged>>

\* wait_for_shutdown: the next handle is drained and abort() called on it; a
\* task that has finished is left as it is
AppAbortNext ==
    /\ app.pc = "shutdown"
    /\ app.handles # <<>>
    /\ LET s == Head(app.handles) IN
         app' = [app EXCEPT
             !.handles = Tail(@),
             !.task[s] = IF @ \in Finished THEN @ ELSE "aborting"]
    /\ UNCHANGED <<metrics, AppUnchanged>>

\* an aborted task is dropped at its suspension point
TaskCancelled(s) ==
    /\ app.task[s] = "aborting"
    /\ app' = [app EXCEPT !.task[s] = "aborted"]
    /\ UNCHANGED <<metrics, AppUnchanged>>

\* wait_for_shutdown returns
AppShutdownReturn ==
    /\ app.pc = "shutdown"
    /\ app.handles = <<>>
    /\ app' = [app EXCEPT !.pc = "waited"]
    /\ UNCHANGED <<metrics, AppUnchanged>>

\* main returns Ok: the runtime built by #[tokio::main] is dropped, and every
\* task that has not finished is dropped at its suspension point
MainReturn ==
    /\ app.pc = "waited"
    /\ app' = [app EXCEPT
            !.pc = "exited",
            !.task = [s \in Servers |->
                         IF @[s] \in Finished \cup {"none"} THEN @[s] ELSE "aborted"],
            !.conn.state = IF @ = "running" THEN "cancelled" ELSE @]
    /\ UNCHANGED <<metrics, AppUnchanged>>

\* the configurations: every choice of the enabled servers
InitApp ==
    /\ config = LibConfig
    /\ sni_map = <<>>
    /\ rw = [c \in Callers |-> IdleCall]
    /\ completed = {}
    /\ ncalls = 0
    /\ nmatched = 0
    /\ metrics = NewMetrics
    /\ http = IdleHttp
    /\ dot = IdleDot
    /\ quic = IdleQuic
    /\ doq = IdleDoq
    /\ doh = IdleDoh
    /\ doh3 = IdleDoh3
    /\ listener = [f \in TcpFronts |-> IdleListener]
    /\ backoff = NewBackoff
    /\ pool = NewPool
    /\ certs = NewResolver(DefaultTls)
    /\ mt = NewMt
    /\ \E enabled \in [Servers -> BOOLEAN] : app = NewApp(enabled)

\* the steps of the tasks, which run until main has returned
TaskSteps ==
    /\ app.pc # "exited"
    /\ \/ \E s \in Servers :
            \/ TaskSetup(s)
            \/ TaskAcceptError(s)
            \/ TaskWake(s)
            \/ TaskAccept(s)
            \/ TaskCancelled(s)
       \/ \E success \in BOOLEAN : ConnFinish(success)

NextApp ==
    \/ AppStart
    \/ AppStartServer
    \/ AppStartReturn
    \/ AppCtrlC
    \/ AppAbortNext
    \/ AppShutdownReturn
    \/ MainReturn
    \/ TaskSteps
    \/ \E s \in Servers : DirectStart(s)

SpecApp == InitApp /\ [][NextApp]_vars

(***************************************************************************)
(* The claims about the rewriter                                           *)
(***************************************************************************)
\* the claims' own reading of "base domain b matches hostname h": h ends with
\* "." + b and what precedes that is non-empty
ClaimMatches(h, b) ==
    /\ Len(h) > Len(b) + 1
    /\ SubSeq(h, Len(h) - Len(b), Len(h)) = <<".">> \o b

ClaimSomeBaseMatches(h) ==
    \E i \in 1..Len(config.base_domains) : ClaimMatches(h, config.base_domains[i])

ClaimValidConfig ==
    /\ Len(config.base_domains) > 0
    /\ Len(config.target_suffix) > 0
    /\ config.target_suffix[1] = "."

Returned(c) == rw[c].pc = "done"

\* C1: under the error strategy, with base domains configured and a target
\* suffix starting with '.', rewrite(h) returns Some(r) exactly when some base
\* domain b has h = p + "." + b with p non-empty; and then r.original = h and
\* r.target_hostname = r.prefix + target_suffix.
C1_RewriteIffMatch ==
    \A c \in Callers :
        (Returned(c) /\ config.rewrite_failure_strategy = "error" /\ ClaimValidConfig)
        => LET h == rw[c].sni
               r == rw[c].result
           IN /\ r.some <=> ClaimSomeBaseMatches(h)
              /\ r.some => /\ r.original = h
                           /\ r.target_hostname = r.prefix \o config.target_suffix

C1_Witness ==
    /\ Returned("t1")
    /\ config.rewrite_failure_strategy = "error"
    /\ ClaimValidConfig
    /\ rw["t1"].result.some
    /\ rw["t1"].sni = <<"A", ".", "a", ".", "a">>
    /\ rw["t1"].result.target_hostname = <<"A", ".", "a", ".", "A">>

ClaimPreconditionFails(h) == h = <<>> \/ ~ClaimValidConfig

ClaimFirstMatch(h) ==
    LET bd == config.base_domains
        i == CHOOSE k \in 1..Len(bd) :
                 /\ ClaimMatches(h, bd[k])
                 /\ \A j \in 1..(k - 1) : ~ClaimMatches(h, bd[j])
    IN bd[i]

ClaimLower(s) == [i \in 1..Len(s) |-> IF s[i] = "A" THEN "a" ELSE s[i]]

\* C4: when base domains match the hostname, the prefix is what precedes "." +
\* the first of them in base_domains order; and a hostname that matches a base
\* domain only up to letter case is not rewritten (none under the error
\* strategy, the passthrough result otherwise).
C4_FirstMatchCaseSensitive ==
    \A c \in Callers :
        (Returned(c) /\ ClaimValidConfig)
        => LET h == rw[c].sni
               r == rw[c].result
               bd == config.base_domains
           IN /\ ClaimSomeBaseMatches(h)
                 => /\ r.some
                    /\ r.prefix = SubSeq(h, 1, Len(h) - Len(ClaimFirstMatch(h)) - 1)
              /\ ( /\ \E i \in 1..Len(bd) : ClaimMatches(ClaimLower(h), ClaimLower(bd[i]))
                   /\ ~ClaimSomeBaseMatches(h) )
                 => IF config.rewrite_failure_strategy = "passthrough"
                    THEN r.some /\ r.prefix = <<>> /\ r.target_hostname = h
                    ELSE ~r.some

C4_Witness ==
    /\ Returned("t1")
    /\ ClaimValidConfig
    /\ config.base_domains = << <<"a">>, <<"a", ".", "a">> >>
    /\ rw["t1"].sni = <<"A", ".", "a", ".", "a">>
    /\ rw["t1"].result.prefix = <<"A", ".", "a">>

\* the completed rewrites that matched a base domain
MatchedDone == {r \in completed : r.result.some /\ r.result.prefix # <<>>}

Quiescent == \A c \in Callers : rw[c].pc \in {"idle", "done"}

\* C5: the cache holds h -> t exactly for the hostnames h some rewrite matched
\* (completed, or past its insert and about to return), t being that rewrite's
\* target = prefix + target_suffix; once no call is in progress the cached
\* hostnames are exactly those of the completed matching rewrites, so a rewrite
\* that returned none or took the passthrough path left no entry.
C5_CacheIsMatchedRewrites ==
    /\ \A r \in MatchedDone :
          /\ r.sni \in DOMAIN sni_map
          /\ sni_map[r.sni] = r.result.target_hostname
          /\ r.result.target_hostname = r.result.prefix \o config.target_suffix
    /\ \A h \in DOMAIN sni_map :
          \/ \E r \in MatchedDone : r.sni = h
          \/ \E c \in Callers :
                /\ rw[c].pc = "ret"
                /\ rw[c].sni = h
                /\ rw[c].result.some
                /\ rw[c].result.target_hostname = sni_map[h]
    /\ Quiescent => DOMAIN sni_map = {r.sni : r \in MatchedDone}

C5_Witness ==
    /\ Quiescent
    /\ config.rewrite_failure_strategy = "passthrough"
    /\ DOMAIN sni_map = {<<"a", ".", "a">>}
    /\ \E r \in completed : r.sni = <<"a", ".", "A">> /\ r.result.some
    /\ \E r \in completed : r.sni = <<>> /\ ~r.result.some

\* C7: any two returned rewrites of the same hostname agree: both none, or
\* both Some with the same target hostname.
C7_SameHostSameTarget ==
    \A r1, r2 \in completed :
        r1.sni = r2.sni
        => /\ r1.result.some = r2.result.some
           /\ r1.result.target_hostname = r2.result.target_hostname

C7_Witness ==
    /\ Returned("t1")
    /\ Returned("t2")
    /\ rw["t1"].sni = rw["t2"].sni
    /\ rw["t1"].result.some
    /\ rw["t1"].result.prefix # <<>>
    /\ rw["t2"].result = rw["t1"].result
    /\ \E k \in DOMAIN sni_map : k # rw["t1"].sni

(***************************************************************************)
(* The claims about the HTTP handler                                       *)
(***************************************************************************)
\* C6 as stated: sni_rewrites counts exactly the rewrite calls that matched a
\* base domain: once the handler is at rest, the counter equals the number of
\* rewrites that returned a rewritten name; a rewrite that returned none or the
\* passthrough result has not moved it.
C6_SniRewritesCountMatches ==
    (http.pc \in {"idle", "done"} /\ Quiescent) => metrics.sni_rewrites = nmatched

\* C10 as stated: whatever the method, the body forwarded to the upstream is
\* the body the client sent, and the response body returned to the client is
\* the body the upstream sent.
C10_BodiesEqualAnyMethod ==
    /\ http.fwd.sent => http.fwd.body = http.req.body
    /\ (http.pc \in {"record_ok", "done"} /\ http.up.kind = "response")
       => http.result.body = http.up.body

\* C10 as amended: for a POST the forwarded body is the client's body, for any
\* other method the forwarded body is empty; and when the upstream's response
\* was read completely, the response returned to the client carries exactly
\* the upstream's body.
C10_BodiesEqualForPost ==
    /\ (http.fwd.sent /\ http.req.method = "POST") => http.fwd.body = http.req.body
    /\ (http.fwd.sent /\ http.req.method # "POST") => http.fwd.body = <<>>
    /\ (http.pc \in {"record_ok", "done"} /\ http.up.kind = "response")
       => /\ http.result.kind = "ok"
          /\ http.result.body = http.up.body

C10_Witness ==
    /\ http.pc = "done"
    /\ http.req.method = "POST"
    /\ http.req.body = <<1>>
    /\ http.fwd.sent
    /\ http.fwd.body = <<1>>
    /\ http.up.kind = "response"
    /\ http.up.body = <<0>>
    /\ http.result.body = <<0>>

(***************************************************************************)
(* The claims about the tunnels                                            *)
(***************************************************************************)
IsPrefix(s, t) == Len(s) <= Len(t) /\ SubSeq(t, 1, Len(s)) = s

\* C8: on a DoT connection the upstream only ever receives a prefix of the
\* client's bytes and the client a prefix of the upstream's response; when the
\* handler completes, the client had sent N > 0 bytes, the upstream has
\* received exactly those, the client has received exactly the upstream's
\* response, and the metrics hold one request, a success, with
\* bytes_received = N and bytes_sent = the response length.
C8_DotRoundTrip ==
    /\ IsPrefix(dot.up_in, dot.client_sent)
    /\ IsPrefix(dot.client_in, dot.up_out)
    /\ metrics.total_requests <= 1
    /\ dot.pc = "done_empty" => dot.client_sent = <<>>
    /\ dot.pc = "done_ok"
       => /\ Len(dot.client_sent) > 0
          /\ dot.up_in = dot.client_sent
          /\ dot.client_in = dot.up_out
          /\ metrics.total_requests = 1
          /\ metrics.successful_requests = 1
          /\ metrics.failed_requests = 0
          /\ metrics.bytes_received = Len(dot.client_sent)
          /\ metrics.bytes_sent = Len(dot.up_out)

C8_Witness ==
    /\ dot.pc = "done_ok"
    /\ dot.client_sent = <<0, 1>>
    /\ dot.up_out = <<1, 1>>
    /\ dot.client_in = <<1, 1>>
    /\ metrics.bytes_received = 2

\* C9: on a DoT connection, on a forwarded QUIC stream and on a DoQ stream, a
\* read is issued on the upstream only after all the bytes the proxy took from
\* the client were written to it and flushed (DoT) or the send side finished
\* (QUIC, DoQ); and the handler returns Ok (DoT) or finishes the client stream
\* (QUIC, DoQ) only after the whole response it took from the upstream was
\* written to the client (and, DoT, flushed).
C9_WriteBeforeRead ==
    /\ dot.up_reads > 0 => (dot.up_in = dot.client_sent /\ dot.up_flushed)
    /\ dot.pc = "done_ok" => (dot.client_in = dot.up_out /\ dot.client_flushed)
    /\ quic.up_reads > 0 => (quic.up_in = quic.client_sent /\ quic.up_finished)
    /\ quic.client_finished
       => (quic.response = quic.up_out /\ quic.client_in = quic.response)
    /\ doq.up_reads > 0 => (doq.up_in = doq.buffer /\ doq.up_finished)
    /\ doq.client_finished => doq.client_in = doq.response

C9_Witness ==
    /\ dot.pc = "read_up"
    /\ dot.up_reads = 1
    /\ dot.buffer = <<1>>
    /\ dot.up_out = <<1, 0>>
    /\ dot.client_sent = <<0, 1>>

(***************************************************************************)
(* The claims about the forwarded request                                  *)
(***************************************************************************)
\* the headers of a client request, Host included, as the claims read them
ClaimClientHeaders(req) ==
    (IF req.host.some THEN <<[name |-> "host", value |-> req.host.v]>> ELSE <<>>)
        \o req.headers

ClaimExcluded == {"host", "connection", "keep-alive", "transfer-encoding"}

\* the forwarded request of front-end record r carries every client header that
\* is not excluded, no excluded header but Host, and one Host header, the target
ClaimHeadersForwarded(r) ==
    LET hs == ClaimClientHeaders(r.req)
        out == r.fwd.headers
    IN /\ \A i \in DOMAIN hs :
             hs[i].name \notin ClaimExcluded => \E j \in DOMAIN out : out[j] = hs[i]
       /\ \A j \in DOMAIN out : out[j].name \notin (ClaimExcluded \ {"host"})
       /\ Cardinality({j \in DOMAIN out : out[j].name = "host"}) = 1
       /\ \A j \in DOMAIN out : out[j].name = "host" => out[j].value = r.target

\* C11 as stated: the request forwarded to the upstream, by forward_http_request
\* or by the DoH server, carries every header name/value pair of the client
\* request except host, connection, keep-alive and transfer-encoding, and
\* exactly one Host header whose value is target_hostname.
C11_HeadersForwarded ==
    /\ http.fwd.sent => ClaimHeadersForwarded(http)
    /\ doh.fwd.sent => ClaimHeadersForwarded(doh)

\* "https://" + host + the path-and-query, "/" when there is none
ClaimUri(host, pq) ==
    <<"h", "t", "t", "p", "s", ":", "/", "/">> \o host \o (IF pq.some THEN pq.v ELSE <<"/">>)

\* the request front-end record r forwarded went to the URI of its target, and
\* under passthrough with an unmatched Host that target is the Host
ClaimForwardedTo(r) ==
    r.fwd.sent
    => /\ r.fwd.uri = ClaimUri(r.target, r.req.path_and_query)
       /\ r.fwd.host = r.target
       /\ ~ClaimSomeBaseMatches(r.req.host.v) => r.target = r.req.host.v

C13_DoqWholeMessage ==
    /\ doq.client_finished
       => (doq.up_in = doq.client_sent /\ doq.client_in = doq.up_out)
    /\ quic.client_finished
       => (quic.up_in = quic.client_sent /\ quic.client_in = quic.up_out)
    /\ (doq.client_sent = <<>> /\ doq.pc # "off") => ~doq.up_connected
    /\ (quic.client_sent = <<>> /\ quic.pc # "off") => ~quic.up_connected

\* C14 as stated: when the DoH3 server finishes the stream of a request the
\* upstream answered, the client has received the upstream's status and, as H3
\* data, the upstream's response body.
C14_Doh3BodyDelivered ==
    (doh3.client.finished /\ doh3.up.kind = "response")
    => /\ doh3.client.responded
       /\ doh3.client.status = doh3.up.status
       /\ doh3.client.data = doh3.up.body

(***************************************************************************)
(* The claims about errors                                                 *)
(***************************************************************************)
\* C15: forward_http_request answers a transport error with a synthesized 502,
\* the expiry of the timeout with a synthesized 504, and a response the
\* upstream returned with that response, status and body unchanged, whether the
\* status is a success or not.
C15_ForwardStatusMapping ==
    (http.fwd.sent /\ http.pc \in {"record_ok", "done"})
    => /\ http.up.kind = "transport_error"
          => (http.result.kind = "ok" /\ http.result.status = 502)
       /\ http.up.kind = "timeout"
          => (http.result.kind = "ok" /\ http.result.status = 504)
       /\ http.up.kind = "response"
          => /\ http.result.kind = "ok"
             /\ http.result.status = http.up.status
             /\ http.result.body = http.up.body

C15_Witness ==
    /\ http.pc = "done"
    /\ http.up = [kind |-> "response", status |-> 500, body |-> <<1>>]
    /\ http.result.kind = "ok"
    /\ http.result.status = 500
    /\ http.result.body = <<1>>

\* C16 as stated: a first request that ends in an upstream timeout (504) or an
\* upstream transport error (502) is recorded as a failure: failed_requests = 1,
\* successful_requests = 0 and upstream_errors = 1.
C16_GatewayErrorIsFailure ==
    (http.pc = "done" /\ http.nreq = 1 /\ http.up.kind \in {"timeout", "transport_error"})
    => /\ metrics.failed_requests = 1
       /\ metrics.successful_requests = 0
       /\ metrics.upstream_errors = 1

\* C17 as stated: a DoT connection or DoQ stream that fails after the client's
\* bytes were read has recorded exactly one failed request and exactly one
\* upstream error.
C17_TunnelFailureRecorded ==
    /\ (dot.pc = "done_err" /\ dot.failed_at \notin {"none", "read_client"})
       => /\ metrics.total_requests = 1
          /\ metrics.failed_requests = 1
          /\ metrics.upstream_errors = 1
    /\ (doq.pc = "done_err" /\ doq.buffer # <<>>)
       => /\ metrics.total_requests = 1
          /\ metrics.failed_requests = 1
          /\ metrics.upstream_errors = 1

\* the first request of front-end record r, caller c of the rewriter, failed
\* before forwarding: no Host header, or a rewrite that returned none
ClaimFailedBeforeForward(r, c) ==
    /\ r.pc = "done"
    /\ r.nreq = 1
    /\ \/ ~r.req.host.some
       \/ (rw[c].pc = "done" /\ ~rw[c].result.some)

\* C18 as stated: a first DoH or DoH3 request that fails before forwarding
\* (no Host header, or rewrite returning none) has sent nothing upstream and
\* has incremented failed_requests by exactly one.
C18_EarlyFailureRecorded ==
    /\ ClaimFailedBeforeForward(http, "http")
       => (~http.fwd.sent /\ metrics.failed_requests = 1)
    /\ ClaimFailedBeforeForward(doh, "doh")
       => (~doh.fwd.sent /\ metrics.failed_requests = 1)
    /\ ClaimFailedBeforeForward(doh3, "doh3")
       => (~doh3.fwd.sent /\ metrics.failed_requests = 1)

\* C19 as stated: a failure while serving one bidi stream of a DoQ connection
\* leaves the connection handler running, ready to accept later streams.
C19_DoqStreamFailureKeepsConnection ==
    doq.stream_failed => doq.pc # "done_err"

\* C20: a DoT client that closes its send side without having sent a byte is
\* never connected to an upstream and is written nothing; unless the read
\* itself fails, the handler returns Ok at once, recording nothing.
C20_DotEmptyMessage ==
    /\ dot.client_sent = <<>>
       => /\ dot.pc \in {"off", "handshake", "done_hs_err", "read_client",
                         "done_empty", "failed", "done_err"}
          /\ dot.failed_at \in {"none", "read_client"}
          /\ ~dot.up_connected
          /\ dot.up_in = <<>>
          /\ dot.client_in = <<>>
    /\ dot.pc = "done_empty"
       => (dot.client_sent = <<>> /\ metrics = NewMetrics)

C20_Witness ==
    /\ dot.pc = "done_empty"
    /\ dot.client_sent = <<>>
    /\ dot.up_out = <<1>>
    /\ dot.closed

(***************************************************************************)
(* The claims about the listeners and the back-off counter                 *)
(***************************************************************************)
\* C21: every accept error of a TCP front end (DoT, DoH) is followed by a
\* sleep of backoff.next_delay(100 ms, 5000 ms) before accept is called
\* again: a loop that is back at accept has slept once for every error it
\* has seen.  The DoH loop goes back to accept without sleeping.
C21_SleepAfterEveryAcceptError ==
    \A f \in TcpFronts :
        listener[f].pc = "accept" => listener[f].sleeps = listener[f].errors

\* 2^n, by repeated doubling
RECURSIVE ClaimPow2(_)
ClaimPow2(n) == IF n = 0 THEN 1 ELSE 2 * ClaimPow2(n - 1)

\* the delays the spec lists for (100, 5000)
ClaimDelays100 == <<100, 200, 400, 800, 1600, 3200, 5000, 5000, 5000, 5000, 5000, 100>>

\* C29: for a single caller the k-th call of next_delay(base_ms, max_ms),
\* k = 0, 1, 2, ..., returns min(base_ms * 2^(k mod 11), max_ms); with
\* (100, 5000) the delays are 100, 200, 400, 800, 1600, 3200, 5000 five times,
\* and then 100 again.
C29_KthDelay ==
    backoff.calls > 0 =>
        LET k == backoff.calls - 1
            product == backoff.last.base_delay_ms * ClaimPow2(k % 11)
        IN  /\ backoff.last.delay =
                 IF product <= backoff.last.max_delay_ms THEN product
                 ELSE backoff.last.max_delay_ms
            /\ (backoff.last.base_delay_ms = 100 /\ backoff.last.max_delay_ms = 5000
                    /\ k < Len(ClaimDelays100))
                 => backoff.last.delay = ClaimDelays100[k + 1]

\* the 12th call has returned: the delay is back at base_ms
C29_Witness ==
    /\ backoff.calls = 12
    /\ backoff.last.base_delay_ms = 100
    /\ backoff.last.max_delay_ms = 5000
    /\ backoff.last.delay = 100

(***************************************************************************)
(* The claims about the connection pool and the certificate resolver       *)
(***************************************************************************)
\* C22: on one pool, two get_client calls return the identical handle if and
\* only if their SNIs are equal, however the calls interleave, and a handle
\* retained in the map is never replaced or removed.
C22_OneHandlePerSni ==
    /\ [](\A r1, r2 \in pool.returned : (r1.client = r2.client) <=> (r1.sni = r2.sni))
    /\ [][\A s \in Snis : pool.clients[s] # 0 => pool'.clients[s] = pool.clients[s]]_vars

\* two first calls for the same SNI raced: each constructed a candidate, and
\* both returned the one handle the map retained
C22_Witness ==
    /\ pool.ncalls = 2
    /\ pool.created = 2
    /\ \A t \in PoolThreads : pool.thr[t].pc = "idle"
    /\ \E s \in Snis :
          pool.clients[s] # 0 /\ pool.returned = {[sni |-> s, client |-> pool.clients[s]]}

\* C23: all successful resolves for the same server name return the
\* identical CertifiedKey object, whether sequential or concurrent.  Two
\* resolves that both miss the cache each load and return their own object.
C23_SameKeyEveryResolve ==
    \A r1, r2 \in certs.done :
        (r1.kind = "ok" /\ r2.kind = "ok" /\ r1.domain = r2.domain) => r1.cert = r2.cert

\* the claims' own reading of the keypair configured for a name
ClaimKeypair(d) ==
    IF certs.tls.certs[d] = "none" THEN certs.tls.default ELSE certs.tls.certs[d]

\* C24: a resolve that fails leaves the cache unchanged; the failure is
\* NotConfigured exactly when the name has no entry in tls.certs and there is
\* no default keypair, and a load error exactly when the configured keypair
\* cannot be loaded; every failed resolve, the first for its name or a later
\* one, has performed the lookup (and the load, for a load error) itself.
C24_FailureNotCached ==
    /\ [](\A r \in certs.done :
            /\ r.kind = "NotConfigured" <=> ClaimKeypair(r.domain) = "none"
            /\ r.kind = "LoadFailed" <=> ClaimKeypair(r.domain) = "bad"
            /\ r.kind = "NotConfigured" => r.lookup
            /\ r.kind = "LoadFailed" => r.lookup /\ r.io)
    /\ [][\A t \in CertThreads :
            (certs.thr[t].pc # "idle" /\ certs'.thr[t].pc = "idle"
                /\ certs'.thr[t].result # "ok")
              => certs'.cert_cache = certs.cert_cache]_vars

\* two resolves for the same name have failed to load its keypair, the second
\* after the first, and the cache has no entry for the name
C24_Witness ==
    \E d \in Domains :
        /\ certs.nfailed[d] >= 2
        /\ certs.cert_cache[d] = 0
        /\ [domain |-> d, kind |-> "LoadFailed", cert |-> 0, lookup |-> TRUE, io |-> TRUE]
              \in certs.done

(***************************************************************************)
(* The claims about the metrics                                            *)
(***************************************************************************)
\* no record_request call is in progress
ClaimNoRecordInProgress == \A t \in MtThreads : mt.thr[t].pc = "idle"

\* C25: however the calls of concurrent threads interleave, every completed
\* record_request has added 1 to total_requests, 1 to successful_requests or
\* to failed_requests according to its success argument, its bytes_in to
\* bytes_received and its bytes_out to bytes_sent, and nothing to sni_rewrites
\* or upstream_errors; when no call is in progress the counters are exactly
\* the sums over the n completed calls, and total_requests = n.
C25_RecordRequestExact ==
    /\ mt.done.n <= metrics.total_requests /\ metrics.total_requests <= mt.ncalls
    /\ mt.done.success <= metrics.successful_requests
    /\ mt.done.failed <= metrics.failed_requests
    /\ mt.done.bytes_received <= metrics.bytes_received
    /\ mt.done.bytes_sent <= metrics.bytes_sent
    /\ metrics.sni_rewrites = mt.nsni
    /\ metrics.upstream_errors = mt.nerr
    /\ ClaimNoRecordInProgress =>
          /\ metrics.total_requests = mt.done.n
          /\ metrics.successful_requests = mt.done.success
          /\ metrics.failed_requests = mt.done.failed
          /\ metrics.successful_requests + metrics.failed_requests = metrics.total_requests
          /\ metrics.bytes_received = mt.done.bytes_received
          /\ metrics.bytes_sent = mt.done.bytes_sent

\* two calls have completed, one with success = true and one with success =
\* false, and none is in progress
C25_Witness ==
    /\ ClaimNoRecordInProgress
    /\ mt.done.n = 2
    /\ mt.done.success = 1
    /\ mt.done.failed = 1
    /\ metrics.total_requests = 2

\* C26: each of the seven counters is non-decreasing across every step: no
\* operation of the metrics sink, snapshot() and export_prometheus() included,
\* lowers or resets a counter.
C26_CountersNeverDecrease ==
    [][\A k \in DOMAIN metrics : metrics'[k] >= metrics[k]]_vars

\* counters have been raised, and a snapshot has been generated and an export
\* made since
C26_Witness ==
    /\ metrics.total_requests >= 1
    /\ metrics.sni_rewrites >= 1
    /\ metrics.upstream_errors >= 1
    /\ mt.nexport >= 1
    /\ mt.snap["s1"].pc = "idle"
    /\ mt.snap["s1"].kind = "generated"
    /\ mt.snap["s1"].result.total_requests >= 1

\* a snapshot is memoized and was stored less than 1 s ago
ClaimMemoFresh ==
    /\ mt.cached_snapshot.some
    /\ mt.now - mt.cached_snapshot.timestamp < TicksPerSecond

\* C28: snapshot() returns the memoized snapshot, and leaves it as it is,
\* when it was stored less than 1 s ago; otherwise (none memoized, or at least
\* 1 s old) it reads the seven live counters into a new snapshot, memoizes it
\* and returns it; on a Metrics on which nothing has been recorded the snapshot
\* has every counter 0, success rate 0 and average latency 0.
C28_SnapshotMemoized ==
    /\ [](\A s \in SnapThreads :
            (mt.snap[s].pc = "idle" /\ mt.snap[s].kind # "none"
                /\ mt.ncalls = 0 /\ mt.nsni = 0 /\ mt.nerr = 0)
              => /\ \A k \in DOMAIN metrics : mt.snap[s].result[k] = 0
                 /\ mt.snap[s].result.success_rate.num = 0
                 /\ mt.snap[s].result.average_processing_time_ms.num = 0)
    /\ [][\A s \in SnapThreads :
          /\ (mt.snap[s].pc = "check" /\ mt'.snap[s].pc # "check") =>
                IF ClaimMemoFresh
                THEN /\ mt'.snap[s].pc = "idle"
                     /\ mt'.snap[s].result = mt.cached_snapshot.snapshot
                     /\ mt'.cached_snapshot = mt.cached_snapshot
                ELSE mt'.snap[s].pc = "generate"
          /\ (mt.snap[s].pc = "generate" /\ mt'.snap[s].pc # "generate") =>
                mt'.snap[s].snapshot.total_requests = metrics.total_requests
          /\ (mt.snap[s].pc = "read_successful" /\ mt'.snap[s].pc # "read_successful") =>
                mt'.snap[s].snapshot.successful_requests = metrics.successful_requests
          /\ (mt.snap[s].pc = "read_rest" /\ mt'.snap[s].pc # "read_rest") =>
                /\ mt'.snap[s].pc = "store"
                /\ mt'.snap[s].snapshot.total_requests = mt.snap[s].snapshot.total_requests
                /\ mt'.snap[s].snapshot.successful_requests
                      = mt.snap[s].snapshot.successful_requests
                /\ \A k \in DOMAIN metrics \ {"total_requests", "successful_requests"} :
                      mt'.snap[s].snapshot[k] = metrics[k]
          /\ (mt.snap[s].pc = "store" /\ mt'.snap[s].pc # "store") =>
                /\ mt'.snap[s].pc = "idle"
                /\ mt'.snap[s].result = mt.snap[s].snapshot
                /\ mt'.cached_snapshot =
                      [some |-> TRUE, snapshot |-> mt.snap[s].snapshot, timestamp |-> mt.now]
         ]_vars

\* snapshot() has returned the memoized snapshot although total_requests has
\* advanced since it was stored
C28_Witness ==
    /\ mt.snap["s1"].pc = "idle"
    /\ mt.snap["s1"].kind = "cached"
    /\ mt.snap["s1"].result.total_requests < metrics.total_requests

(***************************************************************************)
(* The claims about the recording of a request and the upstream timeout    *)
(***************************************************************************)
\* a first request, a POST, was forwarded and answered 200 by the upstream
ClaimPostAnswered(r) ==
    /\ r.pc = "done"
    /\ r.nreq = 1
    /\ r.req.method = "POST"
    /\ r.fwd.sent
    /\ r.up.kind = "response"
    /\ r.up.status = 200

\* the request of handler r was recorded exactly once, as a success
ClaimRecordedOnce(r) ==
    /\ metrics.total_requests = 1
    /\ metrics.successful_requests = 1
    /\ metrics.failed_requests = 0
    /\ metrics.sni_rewrites = 1
    /\ metrics.bytes_received = Len(r.req.body)
    /\ metrics.bytes_sent = Len(r.up.body)

\* C27 as stated: a DoH POST that is rewritten, forwarded and answered
\* successfully by the upstream is recorded exactly once: total_requests,
\* successful_requests and sni_rewrites are 1, failed_requests is 0,
\* bytes_received is the request body's length and bytes_sent the response
\* body's length.  The DoH server records nothing.
C27_DohPostRecordedOnce ==
    /\ ClaimPostAnswered(http) => ClaimRecordedOnce(http)
    /\ ClaimPostAnswered(doh) => ClaimRecordedOnce(doh)

\* C30 as stated: once the 30 s budget of a forward has passed, the forward
\* is no longer waiting for the upstream.  A response whose head arrived in
\* time and whose body stalls is waited for without limit.
C30_ForwardCompletesInBudget ==
    http.deadline_passed => http.pc \notin {"upstream", "collect"}

(***************************************************************************)
(* The claims about concurrent callers of the back-off counter             *)
(***************************************************************************)
\* C34: with N threads calling next_delay concurrently on one counter, every
\* returned delay is at most max_ms, and no call observes an attempt above
\* 10 + (N - 1): the counter can pass 10 before a reset lands, but it does
\* not grow without bound.
C34_ConcurrentAttemptBounded ==
    /\ \A t \in BkThreads :
          /\ backoff.thr[t].delay <= 5000
          /\ backoff.thr[t].attempt <= 10 + (Cardinality(BkThreads) - 1)
    /\ backoff.counter <= 10 + Cardinality(BkThreads)

\* every thread has fetched before any reset landed: the last one observes
\* attempt 10 + (N - 1)
C34_Witness ==
    /\ \A t \in BkThreads : backoff.thr[t].pc = "fetched"
    /\ \E t \in BkThreads : backoff.thr[t].attempt = 10 + (Cardinality(BkThreads) - 1)
    /\ backoff.counter = 10 + Cardinality(BkThreads)

(***************************************************************************)
(* The claims about the counters' consistency                              *)
(***************************************************************************)
\* C35: in every reachable state, the middle of concurrent record_request
\* calls included, total_requests >= successful_requests + failed_requests,
\* with equality whenever no record_request call is in progress.
C35_TotalCoversOutcomes ==
    /\ metrics.total_requests >= metrics.successful_requests + metrics.failed_requests
    /\ (\A t \in MtThreads : mt.thr[t].pc = "idle")
          => metrics.total_requests = metrics.successful_requests + metrics.failed_requests

\* two calls are in progress, one counted in total_requests only and one in
\* its outcome counter too: the inequality is strict
C35_Witness ==
    /\ mt.thr["m1"].pc = "outcome"
    /\ mt.thr["m2"].pc = "bytes_sent"
    /\ metrics.total_requests = 2
    /\ metrics.successful_requests + metrics.failed_requests = 1

(***************************************************************************)
(* The claims about the DoT accept loop's back-off                         *)
(***************************************************************************)
\* C38: the DoT accept loop never resets its BackoffCounter when accept()
\* succeeds: the delay slept after the n-th accept error since the server
\* started is min(100 * 2^((n - 1) mod 11), 5000) ms, however many
\* connections were accepted in between.
C38_BackoffIgnoresAccepts ==
    listener["dot"].pc = "sleep" =>
        LET product == 100 * ClaimPow2((listener["dot"].errors - 1) % 11)
        IN  listener["dot"].delay = IF product <= 5000 THEN product ELSE 5000

\* connections were accepted between the errors, and the loop sleeps the third
\* error's 400 ms
C38_Witness ==
    /\ listener["dot"].pc = "sleep"
    /\ listener["dot"].errors = 3
    /\ listener["dot"].accepted = 2
    /\ listener["dot"].delay = 400

(***************************************************************************)
(* The claims about the order of a DoT exchange                            *)
(***************************************************************************)
\* C40: on a DoT connection no upstream connection is opened and no byte is
\* written to the upstream before the client has closed its send side, and no
\* byte is written back to the client before the upstream has closed its
\* side: a client that keeps its send side open receives nothing.
C40_DotWaitsForBothEofs ==
    /\ (dot.pc = "tls_connect" \/ dot.up_connected \/ dot.up_in # <<>>) => dot.client_eof
    /\ dot.client_in # <<>> => (dot.up_eof /\ dot.client_eof)
    /\ ~dot.client_eof => dot.client_in = <<>>

\* the client has sent its message and keeps its send side open: the handler
\* has read all of it and is still reading, with no upstream connection
C40_Witness ==
    /\ dot.pc = "read_client"
    /\ ~dot.client_eof
    /\ dot.client_sent # <<>>
    /\ dot.buffer = dot.client_sent
    /\ ~dot.up_connected
    /\ dot.client_in = <<>>

(***************************************************************************)
(* The claims about snapshots taken while requests are recorded            *)
(***************************************************************************)
\* C36 as stated: every snapshot returned by snapshot() has
\* successful_requests + failed_requests <= total_requests, also when
\* record_request runs while the snapshot is generated.  The counters are read
\* one after the other, total_requests first.
C36_SnapshotConsistent ==
    \A s \in SnapThreads :
        (mt.snap[s].pc = "idle" /\ mt.snap[s].kind # "none") =>
            mt.snap[s].result.successful_requests + mt.snap[s].result.failed_requests
                <= mt.snap[s].result.total_requests

\* C37 as stated: a snapshot() call reports a total_requests no smaller than
\* any call that had returned before it started, also when other callers race
\* to store their snapshot.  A caller that generated earlier and stores later
\* memoizes the older snapshot.
C37_ReportedTotalNeverDecreases ==
    \A s \in SnapThreads :
        (mt.snap[s].pc = "idle" /\ mt.snap[s].kind # "none") =>
            mt.snap[s].result.total_requests >= mt.snap[s].floor

(***************************************************************************)
(* The claims about the supervisor                                         *)
(***************************************************************************)
\* the number of handles of the server s in the handle list
ClaimCount(handles, s) == Cardinality({i \in 1..Len(handles) : handles[i] = s})

\* the states of a task that may still run
ClaimRunnable == {"spawned", "listening", "sleeping"}

\* C31: after App::start the supervisor holds exactly one handle per enabled
\* server and none for a disabled one; a disabled server has no task and never
\* binds a listener, and its start() called directly returns Ok at once
C31_OneHandlePerEnabledServer ==
    /\ app.pc = "running" =>
          \A s \in Servers :
              ClaimCount(app.handles, s) = IF app.enabled[s] THEN 1 ELSE 0
    /\ \A s \in Servers :
          ~app.enabled[s] =>
              /\ s \notin app.bound
              /\ app.task[s] = "none"
              /\ app.direct.server = s => app.direct.result = "returned"

\* App::start has returned with three servers enabled and two disabled
C31_Witness ==
    /\ app.pc = "running"
    /\ Len(app.handles) = 3
    /\ app.enabled["dot"]
    /\ ~app.enabled["doh3"]
    /\ "dot" \in app.bound

C33_TaskFailureStaysInTask ==
    /\ [](/\ app.start_result \in {"none", "ok"}
          /\ app.pc \in {"running", "shutdown", "waited", "exited"} => app.start_result = "ok")
    /\ [][\A s \in Servers :
            (app.task[s] = "spawned" /\ app'.task[s] = "failed") =>
                /\ s \in app'.logged
                /\ \A x \in Servers \ {s} : app'.task[x] = app.task[x]
                /\ app'.handles = app.handles
                /\ app'.pc = app.pc
                /\ app'.start_result = app.start_result
                /\ app'.conn = app.conn
         ]_vars

\* App::start has returned while one task has not run yet, one has failed and
\* logged its error, and one is in its accept loop
C33_Witness ==
    /\ app.pc = "running"
    /\ app.task["dot"] = "failed"
    /\ "dot" \in app.logged
    /\ app.task["doh"] = "listening"
    /\ app.task["doq"] = "spawned"

\* C39 as stated: a connection task in flight at shutdown keeps running to
\* completion, that is, it is never dropped before it has finished
C39_ConnectionRunsToCompletion ==
    app.conn.state # "cancelled"

\* C39: wait_for_shutdown's aborts leave the connection task alone, which may record
\* its request after wait_for_shutdown has returned; the task is dropped
\* unfinished only when main returns, and does not run after that
C39_ConnectionOutlivesShutdownOnly ==
    /\ [][(app.pc = "shutdown" /\ app'.handles # app.handles) => app'.conn = app.conn]_vars
    /\ [][(app.conn.state = "running" /\ app'.conn.state = "cancelled") =>
            (app.pc = "waited" /\ app'.pc = "exited")]_vars
    /\ [](app.pc = "exited" => app.conn.state # "running")

\* the connection task has recorded its request after wait_for_shutdown
\* returned, the task of the server that spawned it being aborted
C39_Witness ==
    /\ app.late
    /\ app.pc = "waited"
    /\ app.conn.state = "done"
    /\ app.task[app.conn.owner] \in {"aborting", "aborted"}
    /\ metrics.total_requests = 1

====
